---- MODULE Spec2Model ----
(***************************************************************************)
(* Money-Manager: the balance engine, the category rollup and the delta    *)
(* of utils/financeLogic.ts, with the components that drive them.          *)
(*                                                                         *)
(*   Spec        the ledger handlers of App.tsx over recalculateBalances;  *)
(*   RollupSpec  calculateSpentForCategory behind the budgets tab;         *)
(*   BudgetSpec  BudgetManager: budgets set up, adjusted and removed;      *)
(*   DeltaSpec   calculateDelta;                                           *)
(*   FormSpec    the modal form of TransactionManager;                     *)
(*   CategorySpec      CategoryManager over the remote store;              *)
(*   RemoteBudgetSpec  BudgetManager over the remote store;                *)
(*   LocalSpec   the ledger of the local-storage variant of App;           *)
(*   EngineSpec  recalculateBalances over accounts of either kind;         *)
(*   SyncSpec    the ledger handlers of the remote variant, await by await.*)
(*                                                                         *)
(* The state is the React state slots of App (accounts, transactions,      *)
(* categories, budgets), the memos computed from them, and the state of    *)
(* the mounted component.  Amounts and balances are whole numbers of the   *)
(* smallest currency unit and percentages are exact fractions: the         *)
(* arithmetic of the model is exact.                                       *)
(***************************************************************************)
EXTENDS Integers, Sequences, FiniteSets, TLC

VARIABLES
    accounts,           \* App state slot: the stored accounts
    transactions,       \* App state slot: the stored transactions, newest first
    processedAccounts,  \* the memo: what recalculateBalances last returned
    callArgs,           \* history: the two lists as handed to that call
    categories,         \* App state slot: the stored categories
    budgets,            \* App state slot: the stored budgets
    viewDate,           \* BudgetManager: the tracking period {month, year}
    timezoneOffset,     \* the browser's Date.getTimezoneOffset(), in minutes
    budgetsWithSpending,\* BudgetManager memo: one entry per budget, with spent
    deltaCall,          \* the last call of calculateDelta with its result, if any
    formData,           \* TransactionManager: the fields of the modal form
    editingTxId,        \* TransactionManager: the record being edited, or null
    showForm,           \* TransactionManager: whether the form is open
    categoryManager,    \* CategoryManager: showModal, editingCategory, formData
    pending,            \* the FireballDB calls awaited by a handler, oldest first
    isSyncing,          \* App state slot: a ledger handler is at work
    remote              \* the rows of the remote transactions table

ledgerVars == <<accounts, transactions, processedAccounts, callArgs>>

budgetVars ==
    <<categories, budgets, viewDate, timezoneOffset, budgetsWithSpending>>

formVars == <<formData, editingTxId, showForm>>

syncVars == <<pending, isSyncing, remote>>

vars ==
    <<ledgerVars, budgetVars, deltaCall, formVars, categoryManager, syncVars>>

(***************************************************************************)
(* types.ts                                                                *)
(***************************************************************************)
AccountType == {"SAVINGS", "CURRENT", "CASH", "CREDIT_CARD", "LOAN", "EMI"}

TransactionType == {"EXPENSE", "INCOME", "TRANSFER"}

\* An optional field that is absent (toAccountId?: string, dueDate?: string).
undefined == "undefined"

\* parentId of a top-level category; editingTxId when a new record is entered.
null == "null"

\* Math.min
Min(a, b) == IF a <= b THEN a ELSE b

(***************************************************************************)
(* Bounds of the model.                                                    *)
(***************************************************************************)
\* The longest transaction list explored.
MaxTxs == 2

\* Account ids a transaction may name; an id names no account once the
\* account has been deleted.
AccountIds == {"acc_1", "acc_2"}

\* Calendar dates of transactions ('YYYY-MM-DD'); the later date has the
\* smaller day of month.
Dates == {[y |-> 2024, m |-> 4, d |-> 30], [y |-> 2024, m |-> 5, d |-> 1]}

\* Amounts are stored as non-negative magnitudes.
Amounts == {1}

OpeningBalances == {-1, 0, 1}

\* The currentBalance a stored account carries before any recalculation:
\* a cached value that matches no balance the ledger can produce.
StaleBalances == {7}

\* The transactions a handler may be given.
Transaction ==
    [date : Dates, amount : Amounts, type : TransactionType,
     fromAccountId : AccountIds, toAccountId : AccountIds \cup {undefined}]

\* Account acc_1 as loaded from the store: a credit card, any opening balance.
LoadedAccount1 ==
    { [id |-> "acc_1", name |-> "Premium Visa", type |-> "CREDIT_CARD",
       openingBalance |-> o, currentBalance |-> c, status |-> "ACTIVE",
       dueDate |-> "2024-06-15"]
      : o \in OpeningBalances, c \in StaleBalances }

\* Account acc_2 as loaded from the store: an account that is no credit card.
LoadedAccount2 ==
    { [id |-> "acc_2", name |-> "Wallet", type |-> "CASH", openingBalance |-> 2,
       currentBalance |-> c, status |-> "ACTIVE", dueDate |-> undefined]
      : c \in StaleBalances }

(***************************************************************************)
(* Dates: new Date('YYYY-MM-DD').getTime() is UTC midnight of that day.    *)
(* The model counts it in whole days since 1970-01-01.                     *)
(***************************************************************************)
DaysFromCivil(y, m, d) ==
    LET yy  == IF m <= 2 THEN y - 1 ELSE y
        era == yy \div 400
        yoe == yy - era * 400
        mp  == (m + 9) % 12
        doy == (153 * mp + 2) \div 5 + d - 1
        doe == yoe * 365 + yoe \div 4 - yoe \div 100 + doy
    IN  era * 146097 + doe - 719468

getTime(date) == DaysFromCivil(date.y, date.m, date.d)

(***************************************************************************)
(* recalculateBalances                                                     *)
(***************************************************************************)
\* Variant: the filter is left out, every transaction is replayed.
relevantTxs_unfiltered(account, txs) == txs

\* transactions.filter(tx => tx.fromAccountId === id || tx.toAccountId === id)
RECURSIVE relevantTxs(_, _)
relevantTxs(account, txs) ==
    IF txs = <<>> THEN <<>>
    ELSE LET tx == Head(txs)
             rest == relevantTxs(account, Tail(txs))
         IN  IF tx.fromAccountId = account.id \/ tx.toAccountId = account.id
             THEN <<tx>> \o rest
             ELSE rest

\* Variant: the comparator's operands are swapped (b.time - a.time).
RECURSIVE InsertByDate_descending(_, _)
InsertByDate_descending(sorted, tx) ==
    IF sorted = <<>> THEN <<tx>>
    ELSE IF getTime(tx.date) - getTime(Head(sorted).date) > 0
         THEN <<tx>> \o sorted
         ELSE <<Head(sorted)>> \o InsertByDate_descending(Tail(sorted), tx)

\* One step of the stable sort: tx goes behind every element that does not
\* compare greater than it (comparator a.time - b.time > 0).
RECURSIVE InsertByDate(_, _)
InsertByDate(sorted, tx) ==
    IF sorted = <<>> THEN <<tx>>
    ELSE IF getTime(Head(sorted).date) - getTime(tx.date) > 0
         THEN <<tx>> \o sorted
         ELSE <<Head(sorted)>> \o InsertByDate(Tail(sorted), tx)

RECURSIVE SortFrom(_, _)
SortFrom(sorted, txs) ==
    IF txs = <<>> THEN sorted
    ELSE SortFrom(InsertByDate(sorted, Head(txs)), Tail(txs))

\* Variant: the relevant transactions are replayed in the order of the input.
sortedTxs_unsorted(account, txs) == relevantTxs(account, txs)

\* [...relevantTxs].sort((a, b) => new Date(a.date).getTime() - new Date(b.date).getTime())
sortedTxs(account, txs) == SortFrom(<<>>, relevantTxs(account, txs))

\* Variant: the destination branch of TRANSFER credits a credit card unclamped.
applyTx_noTransferClamp(account, balance, tx) ==
    IF tx.type = "INCOME" THEN
        IF account.type = "CREDIT_CARD"
        THEN Min(balance + tx.amount, 0)
        ELSE balance + tx.amount
    ELSE IF tx.type = "EXPENSE" THEN
        balance - tx.amount
    ELSE IF tx.type = "TRANSFER" THEN
        IF tx.fromAccountId = account.id THEN balance - tx.amount
        ELSE IF tx.toAccountId = account.id THEN balance + tx.amount
        ELSE balance
    ELSE balance

\* Variant: the clamp is applied whatever the account type.
applyTx_clampAll(account, balance, tx) ==
    IF tx.type = "INCOME" THEN
        Min(balance + tx.amount, 0)
    ELSE IF tx.type = "EXPENSE" THEN
        balance - tx.amount
    ELSE IF tx.type = "TRANSFER" THEN
        IF tx.fromAccountId = account.id THEN balance - tx.amount
        ELSE IF tx.toAccountId = account.id THEN Min(balance + tx.amount, 0)
        ELSE balance
    ELSE balance

\* Variant: a TRANSFER is credited to its destination also when the account
\* is its source.
applyTx_bothEnds(account, balance, tx) ==
    IF tx.type = "INCOME" THEN
        IF account.type = "CREDIT_CARD"
        THEN Min(balance + tx.amount, 0)
        ELSE balance + tx.amount
    ELSE IF tx.type = "EXPENSE" THEN
        balance - tx.amount
    ELSE IF tx.type = "TRANSFER" THEN
        LET debited == IF tx.fromAccountId = account.id
                       THEN balance - tx.amount ELSE balance
        IN  IF tx.toAccountId = account.id THEN
                IF account.type = "CREDIT_CARD"
                THEN Min(debited + tx.amount, 0)
                ELSE debited + tx.amount
            ELSE debited
    ELSE balance

\* The body of sortedTxs.forEach: the balance after tx is applied.
applyTx(account, balance, tx) ==
    IF tx.type = "INCOME" THEN
        IF account.type = "CREDIT_CARD"
        THEN Min(balance + tx.amount, 0)
        ELSE balance + tx.amount
    ELSE IF tx.type = "EXPENSE" THEN
        balance - tx.amount
    ELSE IF tx.type = "TRANSFER" THEN
        IF tx.fromAccountId = account.id THEN
            balance - tx.amount
        ELSE IF tx.toAccountId = account.id THEN
            IF account.type = "CREDIT_CARD"
            THEN Min(balance + tx.amount, 0)
            ELSE balance + tx.amount
        ELSE balance
    ELSE balance

\* sortedTxs.forEach(...) from a starting balance.
RECURSIVE forEachTx(_, _, _)
forEachTx(account, balance, txs) ==
    IF txs = <<>> THEN balance
    ELSE forEachTx(account, applyTx(account, balance, Head(txs)), Tail(txs))

\* Variant: the replay starts from the cached balance.
startBalance_stale(account) == account.currentBalance

\* let balance = account.openingBalance
startBalance(account) == account.openingBalance

\* Variant: an account no transaction touches is returned as it came.
mapAccount_skipUntouched(account, txs) ==
    IF relevantTxs(account, txs) = <<>> THEN account
    ELSE [account EXCEPT !.currentBalance =
            forEachTx(account, account.openingBalance, sortedTxs(account, txs))]

\* The callback of accounts.map: { ...account, currentBalance: balance }
mapAccount(account, txs) ==
    [account EXCEPT !.currentBalance =
        forEachTx(account, startBalance(account), sortedTxs(account, txs))]

recalculateBalances(accts, txs) ==
    [i \in 1..Len(accts) |-> mapAccount(accts[i], txs)]

\* Variant: the input array itself is sorted (transactions.sort(...)).
transactionsAfterCall_sortedInPlace(txs) == SortFrom(<<>>, txs)

\* What the transaction array passed to recalculateBalances holds after the
\* call: filter and the spread allocate fresh arrays, sort works on the copy.
transactionsAfterCall(txs) == txs

\* What the account array passed to recalculateBalances holds after the
\* call: map allocates the result, the spread allocates each element.
accountsAfterCall(accts) == accts

(***************************************************************************)
(* App.tsx: the ledger and its handlers.  Every handler replaces a state   *)
(* slot; the render that follows recomputes the processedAccounts memo     *)
(* from the arrays now in the slots.                                       *)
(***************************************************************************)
Render(accts, txs) ==
    /\ callArgs' = [accounts |-> accts, transactions |-> txs]
    /\ processedAccounts' = recalculateBalances(accts, txs)
    /\ accounts' = accountsAfterCall(accts)
    /\ transactions' = transactionsAfterCall(txs)

\* The budgets tab is not mounted and nothing is stored for it.
NoBudgetTab ==
    /\ categories = <<>>
    /\ budgets = <<>>
    /\ viewDate = [month |-> 0, year |-> 2024]
    /\ timezoneOffset = 0
    /\ budgetsWithSpending = <<>>

\* calculateDelta has not been called.
NoDelta == deltaCall = <<>>

\* TransactionManager as mounted: useState initial values (lines 26-46);
\* the date field is today's date, notes are free text left out of the model.
InitialFormData ==
    [type |-> "EXPENSE", date |-> [y |-> 2024, m |-> 5, d |-> 1], amount |-> 0,
     fromAccountId |-> "", toAccountId |-> undefined]

NoForm ==
    /\ formData = InitialFormData
    /\ editingTxId = null
    /\ showForm = FALSE

\* CategoryManager as mounted: useState initial values (lines 17-23);
\* editingCategory holds the id of the category being edited.
InitialCategoryManager ==
    [showModal |-> FALSE, editingCategory |-> null,
     formData |-> [name |-> "", type |-> "EXPENSE", parentId |-> null]]

NoCategoryTab == categoryManager = InitialCategoryManager

\* No handler is awaiting the remote store, whose table is not looked at.
NoSync ==
    /\ pending = <<>>
    /\ isSyncing = FALSE
    /\ remote = [rows |-> <<>>, inserts |-> 0]

\* fetchAllData / handleImportData: the ledger as loaded, no transactions yet.
Init ==
    /\ \E a1 \in LoadedAccount1, a2 \in LoadedAccount2 : accounts = <<a1, a2>>
    /\ transactions = <<>>
    /\ processedAccounts = recalculateBalances(accounts, transactions)
    /\ callArgs = [accounts |-> accounts, transactions |-> transactions]
    /\ NoBudgetTab
    /\ NoDelta
    /\ NoForm
    /\ NoCategoryTab
    /\ NoSync

\* handleAddTransaction: setTransactions(prev => [inserted, ...prev])
handleAddTransaction(tx) ==
    /\ Len(transactions) < MaxTxs
    /\ Render(accounts, <<tx>> \o transactions)
    /\ UNCHANGED <<budgetVars, deltaCall, formVars, categoryManager, syncVars>>

RemoveAt(s, k) == SubSeq(s, 1, k - 1) \o SubSeq(s, k + 1, Len(s))

\* handleDeleteTransaction: setTransactions(prev => prev.filter(t => t.id !== id));
\* ids are unique keys of the store, so one position goes.
handleDeleteTransaction(k) ==
    /\ k \in 1..Len(transactions)
    /\ Render(accounts, RemoveAt(transactions, k))
    /\ UNCHANGED <<budgetVars, deltaCall, formVars, categoryManager, syncVars>>

\* onDeleteAccount: setAccounts(prev => prev.filter(a => a.id !== id))
onDeleteAccount(id) ==
    /\ \E i \in 1..Len(accounts) : accounts[i].id = id
    /\ Render(SelectSeq(accounts, LAMBDA a : a.id # id), transactions)
    /\ UNCHANGED <<budgetVars, deltaCall, formVars, categoryManager, syncVars>>

Next ==
    \/ \E tx \in Transaction : handleAddTransaction(tx)
    \/ \E k \in 1..MaxTxs : handleDeleteTransaction(k)
    \/ \E id \in AccountIds : onDeleteAccount(id)

Spec == Init /\ [][Next]_vars

(***************************************************************************)
(* Properties of the balance engine.                                       *)
(***************************************************************************)
\* The returned currentBalance of the i-th account.
Balance(i) == processedAccounts[i].currentBalance

IsCreditCard(account) == account.type = "CREDIT_CARD"

\* The sum of the amounts of the transactions at the positions in S.
RECURSIVE SumAt(_, _)
SumAt(txs, S) ==
    IF S = {} THEN 0
    ELSE LET k == CHOOSE j \in S : TRUE
         IN  txs[k].amount + SumAt(txs, S \ {k})

\* Positions of the transactions of a type naming id as source / destination.
FromPositions(txs, type, id) ==
    {k \in 1..Len(txs) : txs[k].type = type /\ txs[k].fromAccountId = id}

ToPositions(txs, type, id) ==
    {k \in 1..Len(txs) : txs[k].type = type /\ txs[k].toAccountId = id}

\* opening + INCOME as source - EXPENSE as source - TRANSFER as source
\* + TRANSFER as destination.
LedgerSum(account, txs) ==
    account.openingBalance
    + SumAt(txs, FromPositions(txs, "INCOME", account.id))
    - SumAt(txs, FromPositions(txs, "EXPENSE", account.id))
    - SumAt(txs, FromPositions(txs, "TRANSFER", account.id))
    + SumAt(txs, ToPositions(txs, "TRANSFER", account.id))

\* C1: every account that is not a credit card is returned with
\* currentBalance = opening + income as source - expense as source
\* - transfers as source + transfers as destination, for every transaction
\* list (self-transfers and INCOME/EXPENSE carrying a toAccountId included).
C1_BalanceIsLedgerSum ==
    \A i \in 1..Len(accounts) :
        ~IsCreditCard(accounts[i]) =>
            Balance(i) = LedgerSum(accounts[i], transactions)

\* The transactions touching an account, in input order.
Touching(account, txs) ==
    SelectSeq(txs, LAMBDA t : t.fromAccountId = account.id \/ t.toAccountId = account.id)

\* An event after which the credit-card clamp is promised: an INCOME touching
\* the account, or a TRANSFER into it from another account.
IsCreditEvent(account, tx) ==
    \/ tx.type = "INCOME"
    \/ tx.type = "TRANSFER" /\ tx.toAccountId = account.id
                            /\ tx.fromAccountId # account.id

\* The running balance of a replay after its first k transactions.
RunningBalance(account, replayed, k) ==
    forEachTx(account, account.openingBalance, SubSeq(replayed, 1, k))

\* Every credit event of the replay leaves a running balance <= 0, and so
\* does the whole replay when it ends in one.
ClampedAfterCredits(account, replayed, returned) ==
    /\ \A k \in 1..Len(replayed) :
          IsCreditEvent(account, replayed[k]) =>
              RunningBalance(account, replayed, k) <= 0
    /\ (replayed # <<>> /\ IsCreditEvent(account, replayed[Len(replayed)])) =>
          returned <= 0

\* C2: in the replay of a credit-card account the running balance is <= 0
\* right after every INCOME touching it and every TRANSFER into it from
\* another account; when the last replayed transaction is such an event the
\* returned currentBalance is <= 0.
C2_ClampAfterCredit ==
    \A i \in 1..Len(accounts) :
        IsCreditCard(accounts[i]) =>
            ClampedAfterCredits(accounts[i], sortedTxs(accounts[i], transactions),
                                Balance(i))

\* The last transaction of the replay is a transfer in from another account
\* that the clamp cut down to zero.
LastTransferClamped(account, replayed, returned) ==
    /\ Len(replayed) > 1
    /\ replayed[Len(replayed)].type = "TRANSFER"
    /\ IsCreditEvent(account, replayed[Len(replayed)])
    /\ RunningBalance(account, replayed, Len(replayed) - 1)
         + replayed[Len(replayed)].amount > 0
    /\ returned = 0

\* C2 witness: a credit card whose last replayed transaction is a transfer in
\* from another account, which the clamp cut down to zero.
C2_Witness ==
    \E i \in 1..Len(accounts) :
        /\ IsCreditCard(accounts[i])
        /\ LastTransferClamped(accounts[i], sortedTxs(accounts[i], transactions),
                               Balance(i))

\* C3: the returned currentBalance of a credit-card account is never
\* greater than zero, for every opening balance and transaction list.
C3_CreditCardNeverPositive ==
    \A i \in 1..Len(accounts) :
        IsCreditCard(accounts[i]) => Balance(i) <= 0

\* The permutations of 1..n.
Perms(n) ==
    {p \in [1..n -> 1..n] : \A a, b \in 1..n : p[a] = p[b] => a = b}

Permuted(txs, p) == [k \in 1..Len(txs) |-> txs[p[k]]]

\* C4: the returned currentBalance of every account that is not a credit
\* card is the same for every permutation of the input transaction list.
C4_OrderIndependent ==
    \A p \in Perms(Len(transactions)) :
        \A i \in 1..Len(accounts) :
            ~IsCreditCard(accounts[i]) =>
                mapAccount(accounts[i], Permuted(transactions, p)).currentBalance
                    = Balance(i)

\* C4 witness: an account that is not a credit card, touched by two
\* transactions that are stored later-date first.
C4_Witness ==
    \E i \in 1..Len(accounts) :
        /\ ~IsCreditCard(accounts[i])
        /\ LET touching == Touching(accounts[i], transactions)
           IN  /\ Len(touching) >= 2
               /\ getTime(touching[1].date) > getTime(touching[2].date)
               /\ touching[1].type # touching[2].type
               /\ Balance(i) # accounts[i].openingBalance

\* Position a of touching precedes position b in ascending date order with
\* equal dates in input order: it is earlier, or as early and ahead of it.
Precedes(touching, a, b) ==
    \/ getTime(touching[a].date) < getTime(touching[b].date)
    \/ getTime(touching[a].date) = getTime(touching[b].date) /\ a < b

\* The one arrangement of the positions of touching in that order.
StableOrder(touching) ==
    CHOOSE p \in Perms(Len(touching)) :
        \A a, b \in 1..Len(touching) : a < b => Precedes(touching, p[a], p[b])

Arranged(touching, order) == [k \in 1..Len(touching) |-> touching[order[k]]]

\* The transactions touching an account in ascending date order, equal dates
\* in input order.
StableAscending(account, txs) ==
    Arranged(Touching(account, txs), StableOrder(Touching(account, txs)))

\* The left fold of the per-transaction step over txs[1..k].
RECURSIVE FoldLeft(_, _, _)
FoldLeft(account, txs, k) ==
    IF k = 0 THEN account.openingBalance
    ELSE applyTx(account, FoldLeft(account, txs, k - 1), txs[k])

\* C5: for every account, credit cards included, the returned currentBalance
\* is the left fold from openingBalance over the transactions touching the
\* account in ascending date order, equal dates in their input order.
C5_ChronologicalStableFold ==
    \A i \in 1..Len(accounts) :
        Balance(i) = FoldLeft(accounts[i], StableAscending(accounts[i], transactions),
                              Len(Touching(accounts[i], transactions)))

\* C5 witness: a credit card touched by an expense and an income, stored
\* later-date first, whose two replay orders give different balances.
C5_Witness ==
    \E i \in 1..Len(accounts) :
        /\ IsCreditCard(accounts[i])
        /\ LET touching == Touching(accounts[i], transactions)
           IN  /\ Len(touching) = 2
               /\ getTime(touching[1].date) > getTime(touching[2].date)
               /\ FoldLeft(accounts[i], touching, 2)
                    # FoldLeft(accounts[i], <<touching[2], touching[1]>>, 2)

\* C6: an account that no transaction names, as source or as destination, is
\* returned with currentBalance = openingBalance, whatever its type and the
\* currentBalance it carried.
C6_UntouchedKeepsOpening ==
    \A i \in 1..Len(accounts) :
        (\A k \in 1..Len(transactions) :
            /\ transactions[k].fromAccountId # accounts[i].id
            /\ transactions[k].toAccountId # accounts[i].id)
        => Balance(i) = accounts[i].openingBalance

\* C6 witness: a ledger that holds transactions, with an account none of
\* them names, whose cached balance differed from its opening balance.
C6_Witness ==
    /\ Len(transactions) > 0
    /\ \E i \in 1..Len(accounts) :
        /\ Touching(accounts[i], transactions) = <<>>
        /\ accounts[i].currentBalance # accounts[i].openingBalance
        /\ Balance(i) = accounts[i].openingBalance

\* C7: the result has the length and order of the account list it was
\* given, each account differing from its input in currentBalance at most,
\* and the call leaves both its argument lists as they were.
C7_FrameAndInputsUntouched ==
    /\ Len(processedAccounts) = Len(callArgs.accounts)
    /\ \A i \in 1..Len(processedAccounts) :
        processedAccounts[i] =
            [callArgs.accounts[i] EXCEPT !.currentBalance = Balance(i)]
    /\ accounts = callArgs.accounts
    /\ transactions = callArgs.transactions

\* C7 witness: two accounts, both with a recomputed balance that differs
\* from the cached one, and a transaction list stored later-date first.
C7_Witness ==
    /\ Len(processedAccounts) = 2
    /\ \A i \in 1..2 : Balance(i) # callArgs.accounts[i].currentBalance
    /\ Len(callArgs.transactions) >= 2
    /\ getTime(callArgs.transactions[1].date) > getTime(callArgs.transactions[2].date)

\* The account list with the cached balances replaced by those of c.
WithCurrentBalances(accts, c) ==
    [i \in 1..Len(accts) |-> [accts[i] EXCEPT !.currentBalance = c[i]]]

\* Cached balances tried in place of the stored ones.
CachedBalances == {0}

\* C8: the result does not depend on the currentBalance values of the input
\* accounts, and recalculating the result again gives the same result.
C8_CacheIndependentIdempotent ==
    /\ \A c \in [1..Len(accounts) -> CachedBalances] :
        recalculateBalances(WithCurrentBalances(accounts, c), transactions)
            = processedAccounts
    /\ recalculateBalances(processedAccounts, transactions) = processedAccounts

\* C8 witness: every account is touched and none is returned with the
\* balance it carried.
C8_Witness ==
    /\ Len(accounts) = 2
    /\ \A i \in 1..2 :
        /\ Touching(accounts[i], transactions) # <<>>
        /\ Balance(i) # accounts[i].currentBalance
        /\ Balance(i) # accounts[i].openingBalance

\* The step stores one more transaction, at position k of the new list.
AddedAt(k) ==
    /\ accounts' = accounts
    /\ Len(transactions') = Len(transactions) + 1
    /\ k \in 1..Len(transactions')
    /\ transactions = RemoveAt(transactions', k)

\* The step drops the transaction at position k of the old list.
RemovedAt(k) ==
    /\ accounts' = accounts
    /\ Len(transactions) = Len(transactions') + 1
    /\ k \in 1..Len(transactions)
    /\ transactions' = RemoveAt(transactions, k)

MatchesNoAccount(id, accts) == \A i \in 1..Len(accts) : accts[i].id # id

\* C9 (as stated): a transaction whose fromAccountId matches no account is
\* ignored: adding or removing it changes no returned currentBalance.
C9_DanglingSourceIgnored ==
    [][\A k \in 1..(MaxTxs + 1) :
        /\ (AddedAt(k) /\ MatchesNoAccount(transactions'[k].fromAccountId, accounts))
            => processedAccounts' = processedAccounts
        /\ (RemovedAt(k) /\ MatchesNoAccount(transactions[k].fromAccountId, accounts))
            => processedAccounts' = processedAccounts]_vars

\* Neither end of the transaction names an account of the list.
NamesNoAccount(tx, accts) ==
    /\ MatchesNoAccount(tx.fromAccountId, accts)
    /\ MatchesNoAccount(tx.toAccountId, accts)

\* C9 (amended): a transaction neither of whose fromAccountId and
\* toAccountId matches an account is ignored: adding or removing it changes
\* no returned currentBalance.
C9_UnmatchedTransactionIgnored ==
    [][\A k \in 1..(MaxTxs + 1) :
        /\ (AddedAt(k) /\ NamesNoAccount(transactions'[k], accounts))
            => processedAccounts' = processedAccounts
        /\ (RemovedAt(k) /\ NamesNoAccount(transactions[k], accounts))
            => processedAccounts' = processedAccounts]_vars

\* C9 witness: an account with a replayed transaction, next to a stored
\* transaction that names no account of the list.
C9_Witness ==
    /\ Len(accounts) = 1
    /\ Balance(1) # accounts[1].openingBalance
    /\ \E k \in 1..Len(transactions) : NamesNoAccount(transactions[k], accounts)

\* C10: an EXPENSE or INCOME transaction changes the returned balance of the
\* account its fromAccountId names and of no other: an account that is not a
\* credit card moves by -amount (EXPENSE) or +amount (INCOME), and every
\* other account, the one in toAccountId included, keeps its balance.
C10_OnlySourceAccountMoves ==
    [][\A k \in 1..(MaxTxs + 1) :
        (AddedAt(k) /\ transactions'[k].type \in {"EXPENSE", "INCOME"}) =>
            LET tx == transactions'[k]
                delta == IF tx.type = "EXPENSE" THEN 0 - tx.amount ELSE tx.amount
            IN  \A i \in 1..Len(accounts) :
                    /\ accounts[i].id # tx.fromAccountId =>
                        processedAccounts'[i].currentBalance = Balance(i)
                    /\ (accounts[i].id = tx.fromAccountId /\ ~IsCreditCard(accounts[i])) =>
                        processedAccounts'[i].currentBalance = Balance(i) + delta]_vars

(***************************************************************************)
(* utils/financeLogic.ts: calculateSpentForCategory, and the calendar      *)
(* reading of a stored date that it relies on.                             *)
(***************************************************************************)
\* The browser's time zone: India (UTC+5:30) or New York (UTC-5:00), as
\* Date.getTimezoneOffset reports them.
TimezoneOffsets == {-330, 300}

\* The first and the last day of January 2024.
RollupDates == {[y |-> 2024, m |-> 1, d |-> 1], [y |-> 2024, m |-> 1, d |-> 31]}

\* Category ids a transaction or a budget may name.
CategoryIds == {"cat_1", "cat_2", "cat_3"}

\* Category (types.ts); the display name plays no part and is left out.
Category ==
    [id : CategoryIds, parentId : CategoryIds \cup {null}, type : TransactionType]

\* The calendar date of a day number: the inverse of DaysFromCivil.
CivilFromDays(days) ==
    LET z   == days + 719468
        era == z \div 146097
        doe == z - era * 146097
        yoe == (doe - doe \div 1460 + doe \div 36524 - doe \div 146096) \div 365
        doy == doe - (365 * yoe + yoe \div 4 - yoe \div 100)
        mp  == (5 * doy + 2) \div 153
        d   == doy - (153 * mp + 2) \div 5 + 1
        m   == IF mp < 10 THEN mp + 3 ELSE mp - 9
    IN  [y |-> yoe + era * 400 + (IF m <= 2 THEN 1 ELSE 0), m |-> m, d |-> d]

\* new Date('YYYY-MM-DD') is midnight UTC of that day.  getMonth and
\* getFullYear read the calendar of the browser's time zone, which is
\* `offset` minutes behind UTC (Date.getTimezoneOffset: positive west of
\* Greenwich, negative east of it).
localDate(date, offset) ==
    CivilFromDays((getTime(date) * 1440 - offset) \div 1440)

\* The local calendar date of every stored date in every time zone of the
\* model, computed once.
LocalCalendar ==
    [date \in Dates \cup RollupDates, offset \in TimezoneOffsets |->
        localDate(date, offset)]

\* Date.prototype.getMonth: 0 for January .. 11 for December.
getMonth(date) == LocalCalendar[date, timezoneOffset].m - 1

\* Date.prototype.getFullYear
getFullYear(date) == LocalCalendar[date, timezoneOffset].y

\* Array.prototype.includes
includes(seq, x) == \E i \in 1..Len(seq) : seq[i] = x

\* tx.categoryId || ''
orEmpty(v) == IF v = undefined THEN "" ELSE v

\* categories.filter(c => c.parentId === categoryId).map(c => c.id)
RECURSIVE childIds(_, _)
childIds(cats, categoryId) ==
    IF cats = <<>> THEN <<>>
    ELSE IF Head(cats).parentId = categoryId
         THEN <<Head(cats).id>> \o childIds(Tail(cats), categoryId)
         ELSE childIds(Tail(cats), categoryId)

\* Variant: the children's children are target ids too.
targetIds_withGrandchildren(cats, categoryId) ==
    LET children == childIds(cats, categoryId)
        RECURSIVE below(_)
        below(ids) ==
            IF ids = <<>> THEN <<>>
            ELSE childIds(cats, Head(ids)) \o below(Tail(ids))
    IN  <<categoryId>> \o children \o below(children)

\* const targetIds = [categoryId, ...childIds]
targetIds(cats, categoryId) == <<categoryId>> \o childIds(cats, categoryId)

\* Variant: a transaction is also matched through its subCategoryId.
isCounted_bySubCategory(tx, ids, month, year) ==
    /\ tx.type = "EXPENSE"
    /\ includes(ids, orEmpty(tx.categoryId)) \/ includes(ids, orEmpty(tx.subCategoryId))
    /\ getMonth(tx.date) = month
    /\ getFullYear(tx.date) = year

\* The filter callback of lines 71-82.
isCounted(tx, ids, month, year) ==
    /\ tx.type = "EXPENSE"
    /\ includes(ids, orEmpty(tx.categoryId))
    /\ getMonth(tx.date) = month
    /\ getFullYear(tx.date) = year

\* .filter(...).reduce((sum, tx) => sum + tx.amount, 0)
RECURSIVE filterReduce(_, _, _, _)
filterReduce(txs, ids, month, year) ==
    IF txs = <<>> THEN 0
    ELSE (IF isCounted(Head(txs), ids, month, year) THEN Head(txs).amount ELSE 0)
         + filterReduce(Tail(txs), ids, month, year)

\* Variant: one pass over the transactions per target id, the passes added up.
calculateSpentForCategory_perTargetId(txs, categoryId, cats, month, year) ==
    LET RECURSIVE passes(_)
        passes(ids) ==
            IF ids = <<>> THEN 0
            ELSE filterReduce(txs, <<Head(ids)>>, month, year) + passes(Tail(ids))
    IN  passes(targetIds(cats, categoryId))

calculateSpentForCategory(txs, categoryId, cats, month, year) ==
    filterReduce(txs, targetIds(cats, categoryId), month, year)

(***************************************************************************)
(* components/BudgetManager.tsx: the budgetsWithSpending memo.             *)
(***************************************************************************)
\* Variant: a budget whose category an earlier budget already tracks gets
\* nothing, the spending being attributed to the first one.
withSpending_firstBudgetOnly(bs, txs, cats, view) ==
    [i \in 1..Len(bs) |->
        [spent |-> IF \E j \in 1..(i - 1) : bs[j].categoryId = bs[i].categoryId
                   THEN 0
                   ELSE calculateSpentForCategory(txs, bs[i].categoryId, cats,
                                                  view.month, view.year)]
        @@ bs[i]]

\* budgets.map(budget => ({ ...budget, spent: calculateSpentForCategory(...) }))
withSpending(bs, txs, cats, view) ==
    [i \in 1..Len(bs) |->
        [spent |-> calculateSpentForCategory(txs, bs[i].categoryId, cats,
                                             view.month, view.year)]
        @@ bs[i]]

\* The render of the budgets tab over the state slots it is handed.
RenderBudgets(bs, txs, cats, view) ==
    budgetsWithSpending' = withSpending(bs, txs, cats, view)

\* handleAddTransaction while the budgets are tracked: the new list reaches
\* both memos.
handleAddTransaction_tracked(tx) ==
    /\ Len(transactions) < MaxTxs
    /\ Render(accounts, <<tx>> \o transactions)
    /\ RenderBudgets(budgets, <<tx>> \o transactions, categories, viewDate)
    /\ UNCHANGED <<categories, budgets, viewDate, timezoneOffset, deltaCall, formVars, categoryManager, syncVars>>

\* The two selects of the tracking period: setViewDate(prev => ({...prev, ...}))
setViewDate(view) ==
    /\ view # viewDate
    /\ viewDate' = view
    /\ RenderBudgets(budgets, transactions, categories, view)
    /\ UNCHANGED <<ledgerVars, categories, budgets, timezoneOffset, deltaCall, formVars, categoryManager, syncVars>>

(***************************************************************************)
(* The category rollup over a loaded category list, in a browser east or   *)
(* west of Greenwich, with one budget tracking each category.              *)
(***************************************************************************)
\* January 2024 and December 2023.
ViewDates == {[month |-> 0, year |-> 2024], [month |-> 11, year |-> 2023]}

\* The transactions the rollup is given: every type, date and category; the
\* expenses with and without a sub-category.
CategorisedTransaction ==
    { tx \in [date : RollupDates, amount : Amounts, type : TransactionType,
              fromAccountId : {"acc_1"}, toAccountId : {undefined},
              categoryId : CategoryIds, subCategoryId : {undefined, "cat_2"}] :
        tx.type # "EXPENSE" => tx.subCategoryId = undefined }

Cat(id, parentId) == [id |-> id, parentId |-> parentId, type |-> "EXPENSE"]

\* Category lists as the store may hand them over: a parent with a child and
\* a grandchild; a child stored twice; a category that is its own parent.
LoadedCategories ==
    { <<Cat("cat_1", null), Cat("cat_2", "cat_1"), Cat("cat_3", "cat_2")>>,
      <<Cat("cat_1", null), Cat("cat_2", "cat_1"), Cat("cat_2", "cat_1"),
        Cat("cat_3", null)>>,
      <<Cat("cat_1", "cat_1"), Cat("cat_2", "cat_1"), Cat("cat_3", null)>> }

Budget(id, categoryId, amount) ==
    [id |-> id, categoryId |-> categoryId, amount |-> amount, period |-> "MONTHLY"]

\* One budget for each category.
TrackedBudgets ==
    <<Budget("b_1", "cat_1", 5), Budget("b_2", "cat_2", 5), Budget("b_3", "cat_3", 5)>>

RollupInit ==
    /\ accounts = <<>>
    /\ transactions = <<>>
    /\ processedAccounts = recalculateBalances(accounts, transactions)
    /\ callArgs = [accounts |-> accounts, transactions |-> transactions]
    /\ categories \in LoadedCategories
    /\ budgets = TrackedBudgets
    /\ viewDate = [month |-> 0, year |-> 2024]
    /\ timezoneOffset \in TimezoneOffsets
    /\ budgetsWithSpending = withSpending(budgets, transactions, categories, viewDate)
    /\ NoDelta
    /\ NoForm
    /\ NoCategoryTab
    /\ NoSync

RollupNext ==
    \/ \E tx \in CategorisedTransaction : handleAddTransaction_tracked(tx)
    \/ \E view \in ViewDates : setViewDate(view)

RollupSpec == RollupInit /\ [][RollupNext]_vars

(***************************************************************************)
(* Properties of the category rollup.                                      *)
(***************************************************************************)
\* The ids the rollup of `target` covers: the target and its direct children.
TargetSet(cats, target) ==
    {target} \cup {cats[j].id : j \in {n \in 1..Len(cats) : cats[n].parentId = target}}

\* The stored date names a day of the given month (0-11) and year.
FallsIn(date, month, year) == date.m - 1 = month /\ date.y = year

\* The positions of the EXPENSE transactions tagged with one of `ids` whose
\* stored date falls in the month and year.
DatedPositions(txs, ids, month, year) ==
    {k \in 1..Len(txs) :
        /\ txs[k].type = "EXPENSE"
        /\ txs[k].categoryId \in ids
        /\ FallsIn(txs[k].date, month, year)}

\* C11: the rollup of a category for a month and year is the sum of the
\* amounts of exactly the EXPENSE transactions tagged with the category or
\* one of its direct children whose date falls in that month and year;
\* INCOME, TRANSFER and transactions dated elsewhere contribute nothing.
C11_RollupSumsExpensesOfTheMonth ==
    \A i \in 1..Len(budgetsWithSpending) :
        budgetsWithSpending[i].spent =
            SumAt(transactions,
                  DatedPositions(transactions,
                                 TargetSet(categories, budgets[i].categoryId),
                                 viewDate.month, viewDate.year))

\* The positions of the transactions the rollup's own filter keeps for the
\* single id, month and year.
DirectPositions(txs, id, month, year) ==
    {k \in 1..Len(txs) : isCounted(txs[k], <<id>>, month, year)}

\* The EXPENSE amounts of the period tagged directly with `id`.
Direct(txs, id, month, year) == SumAt(txs, DirectPositions(txs, id, month, year))

RECURSIVE SumOver(_, _, _, _, _)
SumOver(txs, cats, S, month, year) ==
    IF S = {} THEN 0
    ELSE LET j == CHOOSE n \in S : TRUE
         IN  Direct(txs, cats[j].id, month, year)
             + SumOver(txs, cats, S \ {j}, month, year)

\* The sum over the category records whose parentId is `target`, each record
\* taken by itself.
SumOverChildRecords(txs, cats, target, month, year) ==
    SumOver(txs, cats, {n \in 1..Len(cats) : cats[n].parentId = target}, month, year)

\* C12 as stated: the rollup of P is the direct amount of P plus the direct
\* amount of each category record whose parentId is P, record by record,
\* also when an id is repeated or a category is its own parent.
C12_RollupIsSumOverRecords ==
    \A i \in 1..Len(budgetsWithSpending) :
        budgetsWithSpending[i].spent =
            Direct(transactions, budgets[i].categoryId, viewDate.month, viewDate.year)
            + SumOverChildRecords(transactions, categories, budgets[i].categoryId,
                                  viewDate.month, viewDate.year)

RECURSIVE SumOverIds(_, _, _, _)
SumOverIds(txs, ids, month, year) ==
    IF ids = {} THEN 0
    ELSE LET id == CHOOSE x \in ids : TRUE
         IN  Direct(txs, id, month, year) + SumOverIds(txs, ids \ {id}, month, year)

\* C12, amended: the rollup of P is the sum, over the distinct ids among
\* P's id and the ids of the categories whose parentId is P, of the direct
\* amount of that id, so every matching transaction is counted exactly once,
\* also when an id is repeated or a category is its own parent.
C12_RollupIsSumOverDistinctIds ==
    \A i \in 1..Len(budgetsWithSpending) :
        budgetsWithSpending[i].spent =
            SumOverIds(transactions, TargetSet(categories, budgets[i].categoryId),
                       viewDate.month, viewDate.year)

\* Some id occurs twice among target and children, taken record by record.
RepeatsAnId(cats, target) ==
    LET ids == targetIds(cats, target)
    IN  \E a, b \in 1..Len(ids) : a # b /\ ids[a] = ids[b]

\* C12 witness: a rollup that counts a transaction whose category id occurs
\* twice among the target and its child records.
C12_Witness ==
    \E i \in 1..Len(budgetsWithSpending) :
        /\ RepeatsAnId(categories, budgets[i].categoryId)
        /\ budgetsWithSpending[i].spent = 2
        /\ Len(transactions) = 2

\* The ids two levels below `target` that are neither the target nor one of
\* its direct children.
Grandchildren(cats, target) ==
    {cats[j].id : j \in {n \in 1..Len(cats) :
                            \E c \in 1..Len(cats) : /\ cats[c].parentId = target
                                                    /\ cats[n].parentId = cats[c].id}}
    \ TargetSet(cats, target)

\* The rollup of budget i's category over the stored list without position k.
SpentWithout(i, k) ==
    calculateSpentForCategory(RemoveAt(transactions, k), budgets[i].categoryId,
                              categories, viewDate.month, viewDate.year)

SpentWithSubCategory(i, k, sub) ==
    calculateSpentForCategory([transactions EXCEPT ![k].subCategoryId = sub],
                              budgets[i].categoryId, categories,
                              viewDate.month, viewDate.year)

\* C14: the rollup does not read subCategoryId: replacing the subCategoryId
\* of any one stored transaction by any other value leaves every rollup as
\* it is (lists that differ in several places differ by a chain of such
\* replacements, each of them a list the ledger can hold).
C14_SubCategoryNotRead ==
    \A i \in 1..Len(budgetsWithSpending), k \in 1..Len(transactions) :
        \A sub \in CategoryIds \cup {undefined} :
            SpentWithSubCategory(i, k, sub) = budgetsWithSpending[i].spent

\* C14 witness: an EXPENSE of the viewed period whose subCategoryId is a
\* child of the first budget's category and whose categoryId is outside its
\* target set, the rollup being 0.
C14_Witness ==
    /\ budgetsWithSpending[1].spent = 0
    /\ \E k \in 1..Len(transactions) :
        LET tx == transactions[k]
        IN  /\ tx.subCategoryId \in TargetSet(categories, budgets[1].categoryId)
                                    \ {budgets[1].categoryId}
            /\ tx.categoryId \notin TargetSet(categories, budgets[1].categoryId)
            /\ isCounted(tx, <<tx.categoryId>>, viewDate.month, viewDate.year)

(***************************************************************************)
(* components/BudgetManager.tsx: what a render shows for each entry of     *)
(* budgetsWithSpending, and the summary cards.  A percentage is kept as    *)
(* the exact fraction num / den with den > 0.                              *)
(***************************************************************************)
Max(a, b) == IF a >= b THEN a ELSE b

\* budget.amount > 0 ? Math.min((budget.spent / budget.amount) * 100, 100) : 0
percentOf(budget) ==
    IF budget.amount > 0
    THEN IF budget.spent * 100 <= 100 * budget.amount
         THEN [num |-> budget.spent * 100, den |-> budget.amount]
         ELSE [num |-> 100, den |-> 1]
    ELSE [num |-> 0, den |-> 1]

\* percent >= n, percent < n, percent = n for a whole number n
AtLeast(percent, n) == percent.num >= n * percent.den
Below(percent, n) == percent.num < n * percent.den
Exactly(percent, n) == percent.num = n * percent.den

\* Variant: a budget that is spent exactly counts as over.
isOverOf_atLimit(budget) == budget.spent >= budget.amount

\* const isOver = budget.spent > budget.amount
isOverOf(budget) == budget.spent > budget.amount

\* const isNear = percent >= 80 && !isOver
isNearOf(budget) == AtLeast(percentOf(budget), 80) /\ ~isOverOf(budget)

\* isOver ? 'bg-rose-500' : isNear ? 'bg-amber-400' : 'bg-indigo-500'
barColour(budget) ==
    IF isOverOf(budget) THEN "rose"
    ELSE IF isNearOf(budget) THEN "amber" ELSE "indigo"

\* Variant: the remaining amount is always amount - spent.
figureOf_alwaysRemaining(budget) ==
    [value |-> budget.amount - budget.spent, label |-> "remaining"]

\* isOver ? `${spent - amount} over limit` : `${amount - spent} remaining`
figureOf(budget) ==
    IF isOverOf(budget)
    THEN [value |-> budget.spent - budget.amount, label |-> "over limit"]
    ELSE [value |-> budget.amount - budget.spent, label |-> "remaining"]

\* The card rendered for one entry (lines 162-229).
budgetCard(budget) ==
    [id |-> budget.id, percent |-> percentOf(budget), isOver |-> isOverOf(budget),
     isNear |-> isNearOf(budget), colour |-> barColour(budget),
     figure |-> figureOf(budget)]

RECURSIVE reduceSum(_, _)
reduceSum(seq, field) ==
    IF seq = <<>> THEN 0 ELSE reduceSum(Tail(seq), field) + Head(seq)[field]

\* const totalBudgeted = budgets.reduce((sum, b) => sum + b.amount, 0)
totalBudgeted == reduceSum(budgets, "amount")

\* const totalSpent = budgetsWithSpending.reduce((sum, b) => sum + b.spent, 0)
totalSpent == reduceSum(budgetsWithSpending, "spent")

\* 'Remaining Safety': Math.max(0, totalBudgeted - totalSpent)
remainingSafety == Max(0, totalBudgeted - totalSpent)

(***************************************************************************)
(* The budgets tab: budgets are set up, adjusted and removed while         *)
(* expenses are recorded and the tracking period is switched.              *)
(***************************************************************************)
\* The longest budget list explored.
MaxBudgets == 2

\* Expense amounts as the amount field takes them (any non-zero number).
ExpenseAmounts == {-1, 1, 4}

\* The allowance typed into the budget form.
AllowanceAmounts == {5}

\* The expenses recorded while the budgets are tracked.
BudgetedTransaction ==
    [date : {[y |-> 2024, m |-> 1, d |-> 31]}, amount : ExpenseAmounts,
     type : {"EXPENSE"}, fromAccountId : {"acc_1"}, toAccountId : {undefined},
     categoryId : {"cat_1"}, subCategoryId : {undefined}]

\* The categories as stored: two top-level categories and one child.
StoredCategories == <<Cat("cat_1", null), Cat("cat_2", "cat_1"), Cat("cat_3", null)>>

\* Budget lists as the store may hand them over: none, or two budgets of the
\* same category, one of them with no allowance.
LoadedBudgets ==
    { <<>>, <<Budget("b_1", "cat_1", 0), Budget("b_2", "cat_1", 5)>> }

\* The ids the store gives to budgets.
BudgetIds == {"b_" \o ToString(n) : n \in 1..(MaxBudgets + 1)}

\* The id the store gives an inserted budget: the first one not in use.
insertedId(bs) ==
    LET n == CHOOSE n \in 1..(Len(bs) + 1) :
                /\ \A i \in 1..Len(bs) : bs[i].id # "b_" \o ToString(n)
                /\ \A m \in 1..(n - 1) : \E i \in 1..Len(bs) : bs[i].id = "b_" \o ToString(m)
    IN  "b_" \o ToString(n)

\* onAddBudget: setBudgets(prev => [...prev, inserted])
onAddBudget(bs, b) ==
    Append(bs, [id |-> insertedId(bs)] @@ b)

\* onUpdateBudget: setBudgets(prev => prev.map(b => b.id === id ? {...b, ...u} : b))
onUpdateBudget(bs, id, u) ==
    [i \in 1..Len(bs) |-> IF bs[i].id = id THEN u @@ bs[i] ELSE bs[i]]

\* budgets.find(b => b.categoryId === formData.categoryId): its position, 0 if none
existingBudgetForSelection(bs, categoryId) ==
    IF \E i \in 1..Len(bs) : bs[i].categoryId = categoryId
    THEN CHOOSE i \in 1..Len(bs) :
            /\ bs[i].categoryId = categoryId
            /\ \A j \in 1..(i - 1) : bs[j].categoryId # categoryId
    ELSE 0

\* BudgetManager.handleSubmit, with the form as handleOpenAdd (editing = 0) or
\* handleOpenEdit of the budget at position `editing` left it and the amount
\* typed in.
budgetsAfterSubmit(bs, editing, categoryId, amount) ==
    IF editing # 0 THEN onUpdateBudget(bs, bs[editing].id, [amount |-> amount])
    ELSE IF existingBudgetForSelection(bs, categoryId) # 0
    THEN onUpdateBudget(bs, bs[existingBudgetForSelection(bs, categoryId)].id,
                        [amount |-> amount])
    ELSE onAddBudget(bs, [categoryId |-> categoryId, amount |-> amount,
                          period |-> "MONTHLY"])

handleSubmitBudget(editing, categoryId, amount) ==
    /\ editing \in 0..Len(budgets)
    /\ editing # 0 => categoryId = budgets[editing].categoryId
    /\ ~(categoryId = "" \/ amount <= 0)
    /\ Len(budgetsAfterSubmit(budgets, editing, categoryId, amount)) <= MaxBudgets
    /\ budgets' = budgetsAfterSubmit(budgets, editing, categoryId, amount)
    /\ RenderBudgets(budgets', transactions, categories, viewDate)
    /\ UNCHANGED <<ledgerVars, categories, viewDate, timezoneOffset, deltaCall, formVars, categoryManager, syncVars>>

\* onDeleteBudget: setBudgets(prev => prev.filter(b => b.id !== id))
onDeleteBudget(id) ==
    /\ \E i \in 1..Len(budgets) : budgets[i].id = id
    /\ budgets' = SelectSeq(budgets, LAMBDA b : b.id # id)
    /\ RenderBudgets(budgets', transactions, categories, viewDate)
    /\ UNCHANGED <<ledgerVars, categories, viewDate, timezoneOffset, deltaCall, formVars, categoryManager, syncVars>>

BudgetInit ==
    /\ accounts = <<>>
    /\ transactions = <<>>
    /\ processedAccounts = recalculateBalances(accounts, transactions)
    /\ callArgs = [accounts |-> accounts, transactions |-> transactions]
    /\ categories = StoredCategories
    /\ budgets \in LoadedBudgets
    /\ viewDate = [month |-> 0, year |-> 2024]
    /\ timezoneOffset = -330
    /\ budgetsWithSpending = withSpending(budgets, transactions, categories, viewDate)
    /\ NoDelta
    /\ NoForm
    /\ NoCategoryTab
    /\ NoSync

BudgetNext ==
    \/ \E tx \in BudgetedTransaction : handleAddTransaction_tracked(tx)
    \/ \E view \in ViewDates : setViewDate(view)
    \/ \E editing \in 0..MaxBudgets, c \in {"cat_1", "cat_3"}, a \in AllowanceAmounts :
          handleSubmitBudget(editing, c, a)
    \/ \E id \in BudgetIds : onDeleteBudget(id)

BudgetSpec == BudgetInit /\ [][BudgetNext]_vars

(***************************************************************************)
(* Properties of the budget view.                                          *)
(***************************************************************************)
\* The rollup of the category of the stored budget i for the viewed period.
SpentOfBudget(i) ==
    calculateSpentForCategory(transactions, budgets[i].categoryId, categories,
                              viewDate.month, viewDate.year)

\* C15: the budget view has one entry per stored budget, in the same order,
\* each with the budget's own fields unchanged plus spent = the rollup of the
\* budget's category for the viewed period; budgets of the same category get
\* the same full value each, and the stored budgets gain no field.
C15_OneEntryPerBudget ==
    /\ Len(budgetsWithSpending) = Len(budgets)
    /\ \A i \in 1..Len(budgets) :
        /\ DOMAIN budgets[i] = {"id", "categoryId", "amount", "period"}
        /\ DOMAIN budgetsWithSpending[i] = DOMAIN budgets[i] \cup {"spent"}
        /\ \A f \in DOMAIN budgets[i] : budgetsWithSpending[i][f] = budgets[i][f]
        /\ budgetsWithSpending[i].spent = SpentOfBudget(i)
    /\ \A i, j \in 1..Len(budgets) :
        budgets[i].categoryId = budgets[j].categoryId =>
            budgetsWithSpending[i].spent = budgetsWithSpending[j].spent

\* C15 witness: two stored budgets of the same category, each shown with the
\* same spending, which is not zero.
C15_Witness ==
    \E i, j \in 1..Len(budgets) :
        /\ i # j
        /\ budgets[i].categoryId = budgets[j].categoryId
        /\ budgetsWithSpending[i].spent = 4
        /\ budgetsWithSpending[j].spent = 4

\* C16: the percentage of every entry lies in [0, 100]: it is
\* spent / amount * 100 clamped to [0, 100] when amount > 0 and 0 when
\* amount <= 0; an entry with no matching transaction in the viewed period
\* has spent = 0 and percent = 0.
C16_PercentWithinRange ==
    \A i \in 1..Len(budgetsWithSpending) :
        LET b == budgetsWithSpending[i]
            percent == percentOf(b)
        IN  /\ AtLeast(percent, 0)
            /\ percent.num <= 100 * percent.den
            /\ b.amount > 0 =>
                percent.num * b.amount
                    = Max(0, Min(b.spent * 100, 100 * b.amount)) * percent.den
            /\ b.amount <= 0 => Exactly(percent, 0)
            /\ DatedPositions(transactions, TargetSet(categories, b.categoryId),
                              viewDate.month, viewDate.year) = {} =>
                (b.spent = 0 /\ Exactly(percent, 0))

\* The status a card shows, read off its colour.
StatusOf(budget) ==
    CASE barColour(budget) = "rose" -> "OVER"
      [] barColour(budget) = "amber" -> "NEAR"
      [] barColour(budget) = "indigo" -> "NORMAL"

\* C17 as stated: OVER exactly when spent > amount; NEAR exactly when not
\* OVER and 80 <= percent < 100; NORMAL otherwise, so a budget spent exactly
\* is NORMAL.
C17_NearBelowHundred ==
    \A i \in 1..Len(budgetsWithSpending) :
        LET b == budgetsWithSpending[i]
            over == b.spent > b.amount
            near == ~over /\ AtLeast(percentOf(b), 80) /\ Below(percentOf(b), 100)
        IN  StatusOf(b) = IF over THEN "OVER" ELSE IF near THEN "NEAR" ELSE "NORMAL"

\* C17, amended: OVER exactly when spent > amount; NEAR exactly when not
\* OVER and percent >= 80, the budget spent exactly (percent 100) included;
\* NORMAL otherwise.
C17_NearFromEighty ==
    \A i \in 1..Len(budgetsWithSpending) :
        LET b == budgetsWithSpending[i]
            over == b.spent > b.amount
            near == ~over /\ b.amount > 0 /\ b.spent * 100 >= 80 * b.amount
        IN  /\ StatusOf(b) = IF over THEN "OVER" ELSE IF near THEN "NEAR" ELSE "NORMAL"
            /\ b.spent = b.amount /\ b.amount > 0 => StatusOf(b) = "NEAR"

\* C17 witness: a budget spent exactly and shown NEAR, next to one of the
\* same category that is OVER.
C17_Witness ==
    \E i, j \in 1..Len(budgetsWithSpending) :
        /\ budgetsWithSpending[i].spent = budgetsWithSpending[i].amount
        /\ budgetsWithSpending[i].amount > 0
        /\ StatusOf(budgetsWithSpending[i]) = "NEAR"
        /\ StatusOf(budgetsWithSpending[j]) = "OVER"

RECURSIVE SumField(_, _, _)
SumField(seq, field, n) ==
    IF n = 0 THEN 0 ELSE SumField(seq, field, n - 1) + seq[n][field]

\* C18: every card shows spent - amount = max(0, spent - amount) when the
\* budget is OVER and amount - spent = max(0, amount - spent) otherwise,
\* never a negative figure, and the summary shows
\* max(0, totalBudgeted - totalSpent).
C18_FiguresNeverNegative ==
    /\ \A i \in 1..Len(budgetsWithSpending) :
        LET b == budgetsWithSpending[i]
            figure == budgetCard(b).figure
        IN  /\ figure.value >= 0
            /\ b.spent > b.amount =>
                (figure.label = "over limit" /\ figure.value = Max(0, b.spent - b.amount))
            /\ ~(b.spent > b.amount) =>
                (figure.label = "remaining" /\ figure.value = Max(0, b.amount - b.spent))
    /\ remainingSafety >= 0
    /\ remainingSafety =
        Max(0, SumField(budgets, "amount", Len(budgets))
               - SumField(budgetsWithSpending, "spent", Len(budgetsWithSpending)))

\* C18 witness: a budget over its limit by 3 next to one with 5 remaining,
\* the summary showing 2 remaining.
C18_Witness ==
    /\ remainingSafety = 2
    /\ \E i, j \in 1..Len(budgetsWithSpending) :
        /\ budgetCard(budgetsWithSpending[i]).figure = [value |-> 3, label |-> "over limit"]
        /\ budgetCard(budgetsWithSpending[j]).figure = [value |-> 5, label |-> "remaining"]

(***************************************************************************)
(* utils/financeLogic.ts: calculateDelta, called with whole numbers.       *)
(***************************************************************************)
\* The largest magnitude of an argument.
MaxValue == 5

Values == (0 - MaxValue)..MaxValue

\* Math.abs
Abs(x) == IF x < 0 THEN 0 - x ELSE x

\* Variant: the difference is divided by previous itself.
calculateDelta_signedBase(current, previous) ==
    [diff |-> current - previous,
     percent |-> IF previous = 0 THEN [num |-> 0, den |-> 1]
                 ELSE IF previous < 0
                      THEN [num |-> (previous - current) * 100, den |-> Abs(previous)]
                      ELSE [num |-> (current - previous) * 100, den |-> previous],
     isPositive |-> current - previous >= 0]

\* The percentage is the exact fraction num / den with den > 0.
calculateDelta(current, previous) ==
    LET diff == current - previous
    IN  [diff |-> diff,
         percent |-> IF previous = 0 THEN [num |-> 0, den |-> 1]
                     ELSE [num |-> diff * 100, den |-> Abs(previous)],
         isPositive |-> diff >= 0]

\* A caller compares two period totals.
callCalculateDelta(current, previous) ==
    /\ deltaCall' = <<[current |-> current, previous |-> previous,
                      result |-> calculateDelta(current, previous)]>>
    /\ UNCHANGED <<ledgerVars, budgetVars, formVars, categoryManager, syncVars>>

DeltaInit ==
    /\ accounts = <<>>
    /\ transactions = <<>>
    /\ processedAccounts = recalculateBalances(accounts, transactions)
    /\ callArgs = [accounts |-> accounts, transactions |-> transactions]
    /\ NoBudgetTab
    /\ NoDelta
    /\ NoForm
    /\ NoCategoryTab
    /\ NoSync

DeltaNext == \E current, previous \in Values : callCalculateDelta(current, previous)

DeltaSpec == DeltaInit /\ [][DeltaNext]_vars

\* C19: calculateDelta returns diff = current - previous, isPositive =
\* (diff >= 0), percent = 0 when previous = 0 and diff / |previous| * 100
\* otherwise, a finite number in every case; so equal arguments give diff 0
\* and, when previous is not 0, percent has the sign of diff.
C19_DeltaAsSpecified ==
    deltaCall # <<>> =>
        LET current == deltaCall[1].current
            previous == deltaCall[1].previous
            r == deltaCall[1].result
        IN  /\ r.diff = current - previous
            /\ r.isPositive = (current >= previous)
            /\ r.percent.den > 0
            /\ previous = 0 => r.percent.num = 0
            /\ previous > 0 => r.percent.num * previous = (current - previous) * 100 * r.percent.den
            /\ previous < 0 => r.percent.num * (0 - previous) = (current - previous) * 100 * r.percent.den
            /\ current = previous => r.diff = 0
            /\ previous # 0 =>
                /\ (r.percent.num > 0) = (current > previous)
                /\ (r.percent.num < 0) = (current < previous)

\* C19 witness: a rise from a negative previous value, and so a positive
\* percentage.
C19_Witness ==
    /\ deltaCall # <<>>
    /\ deltaCall[1].previous = -2
    /\ deltaCall[1].current = 1
    /\ deltaCall[1].result.diff = 3
    /\ deltaCall[1].result.percent = [num |-> 300, den |-> 2]

(***************************************************************************)
(* components/TransactionManager.tsx: the modal form over the ledger.      *)
(* Stored transactions carry the id the store gave them.                   *)
(***************************************************************************)
\* The longest transaction list the form builds.
MaxStored == 1

\* What the amount field is made to hold: the input is a number field with
\* no minimum.
FormAmounts == {-1, 1}

\* The two accounts of the ledger, both ACTIVE.
FormAccounts ==
    << CHOOSE a \in LoadedAccount1 : a.openingBalance = 0,
       CHOOSE a \in LoadedAccount2 : TRUE >>

\* cleanPayload (db.ts 42-53): null, undefined and '' are not written, and
\* the row comes back without them.
cleanPayload(data) ==
    [f \in DOMAIN data |->
        IF f \in {"fromAccountId", "toAccountId"} /\ data[f] \in {null, undefined, ""}
        THEN undefined
        ELSE data[f]]

\* FireballDB.insert: the stored row, with the id the store gives it.
inserted(data, n) == [id |-> "tx_" \o ToString(n)] @@ cleanPayload(data)

\* handleOpenAdd
handleOpenAdd ==
    /\ ~showForm
    /\ editingTxId' = null
    /\ formData' = InitialFormData
    /\ showForm' = TRUE
    /\ UNCHANGED <<ledgerVars, budgetVars, deltaCall, categoryManager, syncVars>>

\* handleOpenEdit(tx), tx being the stored transaction at position k
handleOpenEdit(k) ==
    /\ ~showForm
    /\ k \in 1..Len(transactions)
    /\ editingTxId' = transactions[k].id
    /\ formData' = transactions[k]
    /\ showForm' = TRUE
    /\ UNCHANGED <<ledgerVars, budgetVars, deltaCall, categoryManager, syncVars>>

\* The x button of the modal: setShowForm(false)
closeForm ==
    /\ showForm
    /\ showForm' = FALSE
    /\ UNCHANGED <<ledgerVars, budgetVars, deltaCall, formData, editingTxId, categoryManager, syncVars>>

\* A field of the open form is changed: setFormData({...formData, [field]: value})
setField(field, value) ==
    /\ showForm
    /\ formData[field] # value
    /\ formData' = [formData EXCEPT ![field] = value]
    /\ UNCHANGED <<ledgerVars, budgetVars, deltaCall, editingTxId, showForm, categoryManager, syncVars>>

\* The type select (lines 330-338); the category fields it clears are not
\* part of the model.
changeType(type) ==
    /\ type \in TransactionType
    /\ setField("type", type)

\* The amount input (lines 353-364): parseFloat of what is typed
changeAmount(amount) ==
    /\ amount \in Int
    /\ setField("amount", amount)

\* The source account select (lines 367-382): the ACTIVE accounts
changeFromAccount(id) ==
    /\ \E i \in 1..Len(accounts) : accounts[i].id = id /\ accounts[i].status = "ACTIVE"
    /\ setField("fromAccountId", id)

\* The destination select (lines 384-398): rendered for a TRANSFER only, it
\* offers the ACTIVE accounts other than the source.
changeToAccount(id) ==
    /\ formData.type = "TRANSFER"
    /\ \E i \in 1..Len(accounts) : accounts[i].id = id /\ accounts[i].status = "ACTIVE"
    /\ id # formData.fromAccountId
    /\ setField("toAccountId", id)

\* Variant: any destination left in the form counts as filled in.
requiredFieldsFilled_anyValue ==
    formData.type = "TRANSFER" => formData.toAccountId # undefined

\* The browser lets the form submit when the required fields hold a value:
\* the destination select of a TRANSFER must show one of its accounts.
requiredFieldsFilled ==
    formData.type = "TRANSFER" =>
        /\ formData.toAccountId # formData.fromAccountId
        /\ \E i \in 1..Len(accounts) : accounts[i].id = formData.toAccountId

\* handleUpdateTransaction: prev.map(t => t.id === id ? {...t, ...u} : t)
updatedTransactions(txs, id, u) ==
    [k \in 1..Len(txs) |-> IF txs[k].id = id THEN u @@ txs[k] ELSE txs[k]]

\* handleSubmit, with the App handler it calls and the render that follows.
handleSubmit ==
    /\ showForm
    /\ requiredFieldsFilled
    /\ formData.amount # 0 /\ formData.fromAccountId # ""
    /\ IF editingTxId # null
       THEN Render(accounts, updatedTransactions(transactions, editingTxId, formData))
       ELSE /\ Len(transactions) < MaxStored
            /\ Render(accounts,
                      <<inserted(formData, Len(transactions) + 1)>> \o transactions)
    /\ showForm' = FALSE
    /\ editingTxId' = null
    /\ UNCHANGED <<budgetVars, deltaCall, formData, categoryManager, syncVars>>

FormInit ==
    /\ accounts = FormAccounts
    /\ transactions = <<>>
    /\ processedAccounts = recalculateBalances(accounts, transactions)
    /\ callArgs = [accounts |-> accounts, transactions |-> transactions]
    /\ NoBudgetTab
    /\ NoDelta
    /\ NoForm
    /\ NoCategoryTab
    /\ NoSync

FormNext ==
    \/ handleOpenAdd
    \/ \E k \in 1..MaxStored : handleOpenEdit(k)
    \/ closeForm
    \/ \E type \in TransactionType : changeType(type)
    \/ \E amount \in FormAmounts : changeAmount(amount)
    \/ \E id \in AccountIds : changeFromAccount(id)
    \/ \E id \in AccountIds : changeToAccount(id)
    \/ handleSubmit

FormSpec == FormInit /\ [][FormNext]_vars

\* C20: whatever the form is made to do, every stored EXPENSE or INCOME
\* transaction names one account only: it has no toAccountId.
C20_ExpenseIncomeHaveNoDestination ==
    \A k \in 1..Len(transactions) :
        transactions[k].type \in {"EXPENSE", "INCOME"} =>
            transactions[k].toAccountId = undefined

\* C21: whatever the form is made to do, every stored TRANSFER has a
\* toAccountId, and it differs from its fromAccountId.
C21_TransfersHaveDistinctEnds ==
    \A k \in 1..Len(transactions) :
        transactions[k].type = "TRANSFER" =>
            /\ transactions[k].toAccountId # undefined
            /\ transactions[k].toAccountId # transactions[k].fromAccountId

\* C21 witness: a stored TRANSFER is open in the form, and the source has
\* been changed to the account chosen as destination before.
C21_Witness ==
    /\ showForm
    /\ editingTxId # null
    /\ \E k \in 1..Len(transactions) :
        transactions[k].id = editingTxId /\ transactions[k].type = "TRANSFER"
    /\ formData.type = "TRANSFER"
    /\ formData.toAccountId = formData.fromAccountId

\* C22: every transaction stored through the form has amount >= 0.
C22_StoredAmountsNonNegative ==
    \A k \in 1..Len(transactions) : transactions[k].amount >= 0

(***************************************************************************)
(* CategorySpec: the categories tab.  CategoryManager lists the categories *)
(* with parentId null and, under each, the categories naming it as parent; *)
(* App's callbacks await the remote store before they change the list, so  *)
(* a call stays in `pending` until the store answers.                      *)
(***************************************************************************)

\* How many rows the store is asked to insert, and how many calls wait.
MaxInserts == 1

MaxPending == 1

\* The text typed into the name field.
Names == {"Fuel"}

NamedCategory(id, name, parentId, type) ==
    [id |-> id, name |-> name, parentId |-> parentId, type |-> type]

\* A two-level category set, as INITIAL_CATEGORIES is: a parent and its child.
TwoLevelCategories ==
    <<NamedCategory("cat_1", "Food", null, "EXPENSE"),
      NamedCategory("cat_2", "Fuel", "cat_1", "EXPENSE")>>

\* An awaited FireballDB call.
Call(table, op, id, data) == [table |-> table, op |-> op, id |-> id, data |-> data]

\* The store's key for the next inserted row: keys are never given twice.
nextId(prefix, initial) == prefix \o ToString(initial + remote.inserts + 1)

pendingInserts == Cardinality({k \in 1..Len(pending) : pending[k].op = "insert"})

Range(s) == {s[i] : i \in DOMAIN s}

\* const parents = categories.filter(c => c.parentId === null)
parents == SelectSeq(categories, LAMBDA c : c.parentId = null)

\* The categories a "+ Add Sub-category" button exists for: every category.
listedParents_anyCategory(type) == SelectSeq(categories, LAMBDA c : c.type = type)

\* renderCategoryList: const typeParents = parents.filter(p => p.type === type)
listedParents(type) == SelectSeq(parents, LAMBDA p : p.type = type)

\* The rows with Edit and Delete buttons: each listed parent and, under it,
\* categories.filter(c => c.parentId === parent.id).
listed ==
    { c \in Range(categories) :
        \/ c.parentId = null
        \/ \E k \in 1..Len(parents) : c.parentId = parents[k].id }

\* handleOpenAdd(parentId, type): "+ Add Parent" of a list, or the
\* "+ Add Sub-category" button under a listed parent of that list.
handleOpenAddCategory(parentId, type) ==
    /\ ~categoryManager.showModal
    /\ \/ parentId = null
       \/ \E k \in 1..Len(listedParents(type)) : listedParents(type)[k].id = parentId
    /\ categoryManager' =
         [showModal |-> TRUE, editingCategory |-> null,
          formData |-> [name |-> "", type |-> type, parentId |-> parentId]]
    /\ UNCHANGED <<ledgerVars, budgetVars, deltaCall, formVars, syncVars>>

\* handleOpenEdit(cat)
handleOpenEditCategory(cat) ==
    /\ ~categoryManager.showModal
    /\ cat \in listed
    /\ categoryManager' =
         [showModal |-> TRUE, editingCategory |-> cat.id,
          formData |-> [name |-> cat.name, type |-> cat.type, parentId |-> cat.parentId]]
    /\ UNCHANGED <<ledgerVars, budgetVars, deltaCall, formVars, syncVars>>

\* The name input: setFormData({...formData, name: e.target.value})
changeName(name) ==
    /\ categoryManager.showModal
    /\ categoryManager' =
         [categoryManager EXCEPT !.formData = [name |-> name] @@ categoryManager.formData]
    /\ UNCHANGED <<ledgerVars, budgetVars, deltaCall, formVars, syncVars>>

\* The two type buttons, rendered when !formData.parentId && !editingCategory.
changeCategoryType(type) ==
    /\ categoryManager.showModal
    /\ categoryManager.formData.parentId = null
    /\ categoryManager.editingCategory = null
    /\ categoryManager' =
         [categoryManager EXCEPT !.formData = [type |-> type] @@ categoryManager.formData]
    /\ UNCHANGED <<ledgerVars, budgetVars, deltaCall, formVars, syncVars>>

\* The x button: setShowModal(false)
closeCategoryModal ==
    /\ categoryManager.showModal
    /\ categoryManager' = [categoryManager EXCEPT !.showModal = FALSE]
    /\ UNCHANGED <<ledgerVars, budgetVars, deltaCall, formVars, syncVars>>

\* handleSubmit: the name input is required; the callback is not awaited.
handleSubmitCategory ==
    /\ categoryManager.showModal
    /\ categoryManager.formData.name # ""
    /\ Len(pending) < MaxPending
    /\ IF categoryManager.editingCategory # null
       THEN pending' = Append(pending,
                Call("categories", "update", categoryManager.editingCategory,
                     [name |-> categoryManager.formData.name]))
       ELSE /\ remote.inserts + pendingInserts < MaxInserts
            /\ pending' = Append(pending,
                Call("categories", "insert", null, categoryManager.formData))
    /\ categoryManager' = [categoryManager EXCEPT !.showModal = FALSE]
    /\ UNCHANGED <<ledgerVars, budgetVars, deltaCall, formVars, isSyncing, remote>>

\* The Delete button of a listed row: onDeleteCategory(id) starts its call.
deleteCategoryClicked(id) ==
    /\ ~categoryManager.showModal
    /\ \E c \in listed : c.id = id
    /\ Len(pending) < MaxPending
    /\ pending' = Append(pending, Call("categories", "delete", id, null))
    /\ UNCHANGED <<ledgerVars, budgetVars, deltaCall, formVars, categoryManager,
                   isSyncing, remote>>

\* onAddCategory after the await: setCategories(prev => [...prev, inserted])
onAddCategory(k) ==
    /\ k \in 1..Len(pending)
    /\ pending[k].table = "categories" /\ pending[k].op = "insert"
    /\ LET row == [id |-> nextId("cat_", Len(TwoLevelCategories))] @@ pending[k].data
       IN  /\ categories' = Append(categories, row)
           /\ remote' = [rows |-> Append(remote.rows, row),
                         inserts |-> remote.inserts + 1]
    /\ pending' = RemoveAt(pending, k)
    /\ UNCHANGED <<ledgerVars, budgets, viewDate, timezoneOffset,
                   budgetsWithSpending, deltaCall, formVars, categoryManager,
                   isSyncing>>

\* onUpdateCategory after the await:
\* setCategories(prev => prev.map(c => c.id === id ? {...c, ...u} : c))
onUpdateCategory(k) ==
    /\ k \in 1..Len(pending)
    /\ pending[k].table = "categories" /\ pending[k].op = "update"
    /\ categories' =
         [i \in 1..Len(categories) |->
            IF categories[i].id = pending[k].id
            THEN pending[k].data @@ categories[i] ELSE categories[i]]
    /\ remote' =
         [remote EXCEPT !.rows =
            [i \in 1..Len(remote.rows) |->
               IF remote.rows[i].id = pending[k].id
               THEN pending[k].data @@ remote.rows[i] ELSE remote.rows[i]]]
    /\ pending' = RemoveAt(pending, k)
    /\ UNCHANGED <<ledgerVars, budgets, viewDate, timezoneOffset,
                   budgetsWithSpending, deltaCall, formVars, categoryManager,
                   isSyncing>>

\* onDeleteCategory after the await:
\* setCategories(prev => prev.filter(c => c.id !== id))
onDeleteCategory(k) ==
    /\ k \in 1..Len(pending)
    /\ pending[k].table = "categories" /\ pending[k].op = "delete"
    /\ categories' = SelectSeq(categories, LAMBDA c : c.id # pending[k].id)
    /\ remote' =
         [remote EXCEPT !.rows = SelectSeq(remote.rows, LAMBDA c : c.id # pending[k].id)]
    /\ pending' = RemoveAt(pending, k)
    /\ UNCHANGED <<ledgerVars, budgets, viewDate, timezoneOffset,
                   budgetsWithSpending, deltaCall, formVars, categoryManager,
                   isSyncing>>

\* The store answers with an error: the await throws and the callback ends.
categoryCallFails(k) ==
    /\ k \in 1..Len(pending)
    /\ pending[k].table = "categories"
    /\ pending' = RemoveAt(pending, k)
    /\ UNCHANGED <<ledgerVars, budgetVars, deltaCall, formVars, categoryManager,
                   isSyncing, remote>>

\* fetchAllData has loaded a two-level set; the tab is open.
CategoryInit ==
    /\ accounts = <<>>
    /\ transactions = <<>>
    /\ processedAccounts = <<>>
    /\ callArgs = [accounts |-> <<>>, transactions |-> <<>>]
    /\ categories = TwoLevelCategories
    /\ budgets = <<>>
    /\ viewDate = [month |-> 0, year |-> 2024]
    /\ timezoneOffset = 0
    /\ budgetsWithSpending = <<>>
    /\ NoDelta
    /\ NoForm
    /\ NoCategoryTab
    /\ pending = <<>>
    /\ isSyncing = FALSE
    /\ remote = [rows |-> TwoLevelCategories, inserts |-> 0]

CategoryNext ==
    \/ \E type \in {"EXPENSE", "INCOME"} :
         \E parentId \in {null} \cup {categories[i].id : i \in 1..Len(categories)} :
           handleOpenAddCategory(parentId, type)
    \/ \E cat \in Range(categories) : handleOpenEditCategory(cat)
    \/ \E name \in Names : changeName(name)
    \/ \E type \in {"EXPENSE", "INCOME"} : changeCategoryType(type)
    \/ closeCategoryModal
    \/ handleSubmitCategory
    \/ \E i \in 1..Len(categories) : deleteCategoryClicked(categories[i].id)
    \/ \E k \in 1..MaxPending : onAddCategory(k)
    \/ \E k \in 1..MaxPending : onUpdateCategory(k)
    \/ \E k \in 1..MaxPending : onDeleteCategory(k)
    \/ \E k \in 1..MaxPending : categoryCallFails(k)

CategorySpec == CategoryInit /\ [][CategoryNext]_vars

byId(id) == { c \in Range(categories) : c.id = id }

NoGrandparent ==
    \A c \in Range(categories) :
        c.parentId # null => \A p \in byId(c.parentId) : p.parentId = null

\* C23: from a two-level set, whatever CategoryManager does, no category has
\* a parent whose own parentId is not null, and no step (an edit least of
\* all) changes the parentId or the type of a category that stays listed.
C23_NoGrandparentChains ==
    /\ []NoGrandparent
    /\ [][\A c \in Range(categories), d \in Range(categories') :
             c.id = d.id => c.parentId = d.parentId /\ c.type = d.type]_vars

\* A sub-category added through the form sits under a listed parent, and a
\* category has been renamed.
C23_Witness ==
    /\ \E c \in Range(categories) :
          /\ c.id \notin {"cat_1", "cat_2"}
          /\ c.parentId # null
          /\ byId(c.parentId) # {}
    /\ \E i \in 1..Len(categories) :
          /\ i <= Len(TwoLevelCategories)
          /\ categories[i].id = TwoLevelCategories[i].id
          /\ categories[i].name # TwoLevelCategories[i].name

\* C24: every category with a parentId names a category that is in the list.
C24_ParentExists ==
    \A c \in Range(categories) : c.parentId # null => byId(c.parentId) # {}

(***************************************************************************)
(* RemoteBudgetSpec: the budgets tab over the remote store.  handleSubmit  *)
(* of BudgetManager decides between insert and update from the budgets it  *)
(* was rendered with and does not await the callback; App's callbacks      *)
(* change the list once the store has answered.                            *)
(***************************************************************************)

\* BudgetManager.handleSubmit: the call it starts, with the form as
\* handleOpenAdd (editing = 0) or handleOpenEdit of the budget at position
\* `editing` left it.
callOfSubmit(bs, editing, categoryId, amount) ==
    IF editing # 0
    THEN Call("budgets", "update", bs[editing].id, [amount |-> amount])
    ELSE IF existingBudgetForSelection(bs, categoryId) # 0
    THEN Call("budgets", "update",
              bs[existingBudgetForSelection(bs, categoryId)].id, [amount |-> amount])
    ELSE Call("budgets", "insert", null,
              [categoryId |-> categoryId, amount |-> amount, period |-> "MONTHLY"])

submitBudgetForm(editing, categoryId, amount) ==
    /\ editing \in 0..Len(budgets)
    /\ editing # 0 => categoryId = budgets[editing].categoryId
    /\ ~(categoryId = "" \/ amount <= 0)
    /\ Len(pending) < MaxBudgets
    /\ callOfSubmit(budgets, editing, categoryId, amount).op = "insert"
         => Len(budgets) + pendingInserts < MaxBudgets
    /\ pending' = Append(pending, callOfSubmit(budgets, editing, categoryId, amount))
    /\ UNCHANGED <<ledgerVars, budgetVars, deltaCall, formVars, categoryManager,
                   isSyncing, remote>>

\* The Delete button of a budget card: onDeleteBudget(id) starts its call.
deleteBudgetClicked(id) ==
    /\ \E i \in 1..Len(budgets) : budgets[i].id = id
    /\ Len(pending) < MaxBudgets
    /\ pending' = Append(pending, Call("budgets", "delete", id, null))
    /\ UNCHANGED <<ledgerVars, budgetVars, deltaCall, formVars, categoryManager,
                   isSyncing, remote>>

\* onAddBudget after the await: setBudgets(prev => [...prev, inserted])
budgetInserted(k) ==
    /\ k \in 1..Len(pending)
    /\ pending[k].table = "budgets" /\ pending[k].op = "insert"
    /\ LET row == [id |-> nextId("b_", 0)] @@ pending[k].data
       IN  /\ budgets' = Append(budgets, row)
           /\ remote' = [rows |-> Append(remote.rows, row),
                         inserts |-> remote.inserts + 1]
    /\ RenderBudgets(budgets', transactions, categories, viewDate)
    /\ pending' = RemoveAt(pending, k)
    /\ UNCHANGED <<ledgerVars, categories, viewDate, timezoneOffset, deltaCall,
                   formVars, categoryManager, isSyncing>>

\* onUpdateBudget after the await
budgetUpdated(k) ==
    /\ k \in 1..Len(pending)
    /\ pending[k].table = "budgets" /\ pending[k].op = "update"
    /\ budgets' = onUpdateBudget(budgets, pending[k].id, pending[k].data)
    /\ remote' = [remote EXCEPT
                    !.rows = onUpdateBudget(remote.rows, pending[k].id, pending[k].data)]
    /\ RenderBudgets(budgets', transactions, categories, viewDate)
    /\ pending' = RemoveAt(pending, k)
    /\ UNCHANGED <<ledgerVars, categories, viewDate, timezoneOffset, deltaCall,
                   formVars, categoryManager, isSyncing>>

\* onDeleteBudget after the await: setBudgets(prev => prev.filter(b => b.id !== id))
budgetDeleted(k) ==
    /\ k \in 1..Len(pending)
    /\ pending[k].table = "budgets" /\ pending[k].op = "delete"
    /\ budgets' = SelectSeq(budgets, LAMBDA b : b.id # pending[k].id)
    /\ remote' = [remote EXCEPT
                    !.rows = SelectSeq(remote.rows, LAMBDA b : b.id # pending[k].id)]
    /\ RenderBudgets(budgets', transactions, categories, viewDate)
    /\ pending' = RemoveAt(pending, k)
    /\ UNCHANGED <<ledgerVars, categories, viewDate, timezoneOffset, deltaCall,
                   formVars, categoryManager, isSyncing>>

\* The store answers with an error: the await throws and the callback ends.
budgetCallFails(k) ==
    /\ k \in 1..Len(pending)
    /\ pending[k].table = "budgets"
    /\ pending' = RemoveAt(pending, k)
    /\ UNCHANGED <<ledgerVars, budgetVars, deltaCall, formVars, categoryManager,
                   isSyncing, remote>>

\* fetchAllData has found no budgets; the tab is open.
RemoteBudgetInit ==
    /\ accounts = <<>>
    /\ transactions = <<>>
    /\ processedAccounts = <<>>
    /\ callArgs = [accounts |-> <<>>, transactions |-> <<>>]
    /\ categories = StoredCategories
    /\ budgets = <<>>
    /\ viewDate = [month |-> 0, year |-> 2024]
    /\ timezoneOffset = -330
    /\ budgetsWithSpending = <<>>
    /\ NoDelta
    /\ NoForm
    /\ NoCategoryTab
    /\ NoSync

AllowanceInputs == {5, 6}

RemoteBudgetNext ==
    \/ \E editing \in 0..MaxBudgets, c \in {"cat_1", "cat_3"}, a \in AllowanceInputs :
          submitBudgetForm(editing, c, a)
    \/ \E id \in BudgetIds : deleteBudgetClicked(id)
    \/ \E k \in 1..MaxBudgets : budgetInserted(k)
    \/ \E k \in 1..MaxBudgets : budgetUpdated(k)
    \/ \E k \in 1..MaxBudgets : budgetDeleted(k)
    \/ \E k \in 1..MaxBudgets : budgetCallFails(k)

RemoteBudgetSpec == RemoteBudgetInit /\ [][RemoteBudgetNext]_vars

\* C25: whatever is submitted in BudgetManager, no two stored budgets share a
\* categoryId, also when onAddBudget awaits the remote store.
C25_OneBudgetPerCategory ==
    \A i, j \in 1..Len(budgets) :
        i # j => budgets[i].categoryId # budgets[j].categoryId

(***************************************************************************)
(* LocalSpec: the ledger of the local-storage variant of App.  The state   *)
(* slots are set at once; the balances shown come from the processedAccounts *)
(* memo of that variant.                                                   *)
(***************************************************************************)

Account(id, name, type, openingBalance, dueDate) ==
    [id |-> id, name |-> name, type |-> type, openingBalance |-> openingBalance,
     currentBalance |-> openingBalance, status |-> "ACTIVE", dueDate |-> dueDate]

INITIAL_ACCOUNTS ==
    <<Account("acc_1", "Main Savings", "SAVINGS", 5000, undefined),
      Account("acc_2", "Wallet", "CASH", 200, undefined),
      Account("acc_3", "Premium Visa", "CREDIT_CARD", 0, "2024-06-15"),
      Account("acc_4", "Home Loan", "LOAN", -250000, "2024-06-05")>>

\* INITIAL_TRANSACTIONS, with the fields the balance engine reads.
INITIAL_TRANSACTIONS ==
    <<[date |-> [y |-> 2024, m |-> 5, d |-> 1], amount |-> 3000, type |-> "INCOME",
       fromAccountId |-> "acc_1", toAccountId |-> undefined],
      [date |-> [y |-> 2024, m |-> 5, d |-> 2], amount |-> 500, type |-> "EXPENSE",
       fromAccountId |-> "acc_3", toAccountId |-> undefined],
      [date |-> [y |-> 2024, m |-> 5, d |-> 5], amount |-> 1000, type |-> "TRANSFER",
       fromAccountId |-> "acc_1", toAccountId |-> "acc_3"]>>

\* The processedAccounts memo of the local variant.
processedAccountsOf(accts, txs) ==
    IF Len(accts) = 0 THEN INITIAL_ACCOUNTS ELSE recalculateBalances(accts, txs)

\* A render of the local variant after the state slots were set.
RenderLocal(accts, txs) ==
    /\ accounts' = accts
    /\ transactions' = txs
    /\ processedAccounts' = processedAccountsOf(accts, txs)
    /\ callArgs' = [accounts |-> accts, transactions |-> txs]
    /\ UNCHANGED <<budgetVars, deltaCall, formVars, categoryManager, syncVars>>

\* What the forms and the importer of the local variant hand over.
LocalTransaction ==
    { [date |-> d, amount |-> a, type |-> t, fromAccountId |-> "acc_1",
       toAccountId |-> IF t = "TRANSFER" THEN "acc_3" ELSE undefined]
      : d \in Dates, a \in Amounts, t \in TransactionType }

\* The longest ledger looked at.
MaxLedger == Len(INITIAL_TRANSACTIONS)

\* A backup file read by Settings: any of the two lists may be missing.
BackupFiles ==
    { [transactions |-> <<>>],
      [accounts |-> <<>>, transactions |-> <<INITIAL_TRANSACTIONS[1]>>],
      [accounts |-> <<INITIAL_ACCOUNTS[1], INITIAL_ACCOUNTS[3]>>],
      [accounts |-> <<INITIAL_ACCOUNTS[3]>>, transactions |-> <<INITIAL_TRANSACTIONS[2]>>] }

\* data.key || []
orEmptyList(data, key) == IF key \in DOMAIN data THEN data[key] ELSE <<>>

\* onAddTransaction: setTransactions(prev => [{...tx, id}, ...prev])
onAddTransaction(tx) ==
    /\ Len(transactions) < MaxLedger
    /\ RenderLocal(accounts, <<tx>> \o transactions)

\* onUpdateTransaction: prev.map(t => t.id === id ? {...t, ...u} : t); the
\* form submits every field, and ids are unique, so one position changes.
onUpdateTransaction(k, u) ==
    /\ k \in 1..Len(transactions)
    /\ u # transactions[k]
    /\ RenderLocal(accounts, [transactions EXCEPT ![k] = u @@ transactions[k]])

\* onDeleteTransaction: prev.filter(t => t.id !== id)
onDeleteTransaction(k) ==
    /\ k \in 1..Len(transactions)
    /\ RenderLocal(accounts, RemoveAt(transactions, k))

\* SmartImporter onImport: setTransactions(prev => [...txs.map(...), ...prev])
onImport(txs) ==
    /\ Len(transactions) + Len(txs) <= MaxLedger
    /\ RenderLocal(accounts, txs \o transactions)

\* handleImportData
handleImportData(data) ==
    /\ data \in BackupFiles
    /\ RenderLocal(orEmptyList(data, "accounts"), orEmptyList(data, "transactions"))

\* resetAllData, confirmed: the defaults are set and the page reloads into
\* hydrateFromStorage with nothing stored.
resetAllData ==
    /\ <<accounts, transactions>> # <<INITIAL_ACCOUNTS, INITIAL_TRANSACTIONS>>
    /\ RenderLocal(INITIAL_ACCOUNTS, INITIAL_TRANSACTIONS)

\* hydrateFromStorage for a new user, after which the ledger is shown.
LocalInit ==
    /\ accounts = INITIAL_ACCOUNTS
    /\ transactions = INITIAL_TRANSACTIONS
    /\ processedAccounts = processedAccountsOf(accounts, transactions)
    /\ callArgs = [accounts |-> accounts, transactions |-> transactions]
    /\ NoBudgetTab
    /\ NoDelta
    /\ NoForm
    /\ NoCategoryTab
    /\ NoSync

LocalNext ==
    \/ \E tx \in LocalTransaction : onAddTransaction(tx)
    \/ \E k \in 1..MaxLedger, u \in LocalTransaction :
          onUpdateTransaction(k, u)
    \/ \E k \in 1..MaxLedger : onDeleteTransaction(k)
    \/ \E tx1, tx2 \in LocalTransaction : onImport(<<tx1, tx2>>)
    \/ \E data \in BackupFiles : handleImportData(data)
    \/ resetAllData

LocalSpec == LocalInit /\ [][LocalNext]_vars

\* C26: the accounts handed to the components are recalculateBalances of the
\* stored accounts and transactions, in every state of the application.
C26_ProcessedIsRecalculated ==
    processedAccounts = recalculateBalances(accounts, transactions)

(***************************************************************************)
(* EngineSpec: recalculateBalances over ledgers of every shape.  The first *)
(* account is of either kind, credit card or not, the second is no credit  *)
(* card; the ledger is built up and taken down by the handlers of Spec,    *)
(* each of which ends in a call.                                           *)
(***************************************************************************)
EngineAccount(id, types) ==
    { [id |-> id, name |-> id, type |-> t, openingBalance |-> 0,
       currentBalance |-> 0, status |-> "ACTIVE", dueDate |-> undefined]
      : t \in types }

EngineInit ==
    /\ \E a1 \in EngineAccount("acc_1", {"SAVINGS", "CREDIT_CARD"}),
          a2 \in EngineAccount("acc_2", {"SAVINGS"}) :
          accounts = <<a1, a2>>
    /\ transactions = <<>>
    /\ processedAccounts = recalculateBalances(accounts, transactions)
    /\ callArgs = [accounts |-> accounts, transactions |-> transactions]
    /\ NoBudgetTab
    /\ NoDelta
    /\ NoForm
    /\ NoCategoryTab
    /\ NoSync

EngineSpec == EngineInit /\ [][Next]_vars

\* The recomputed balance of an account under a ledger.
balanceUnder(account, txs) == mapAccount(account, txs).currentBalance

\* Position k holds a TRANSFER between the distinct stored accounts at i and j,
\* neither of them a credit card.
PlainTransfer(k, i, j) ==
    /\ transactions[k].type = "TRANSFER"
    /\ transactions[k].fromAccountId = accounts[i].id
    /\ transactions[k].toAccountId = accounts[j].id
    /\ accounts[i].id # accounts[j].id
    /\ accounts[i].type # "CREDIT_CARD"
    /\ accounts[j].type # "CREDIT_CARD"

\* C27: a TRANSFER between two distinct stored accounts that are no credit
\* cards leaves the sum of their two recomputed balances as it is without
\* the transfer, whatever else the ledger holds.
C27_TransferConservesSum ==
    \A k \in 1..Len(transactions) : \A i, j \in 1..Len(accounts) :
        PlainTransfer(k, i, j) =>
            balanceUnder(accounts[i], transactions)
              + balanceUnder(accounts[j], transactions)
            = balanceUnder(accounts[i], RemoveAt(transactions, k))
              + balanceUnder(accounts[j], RemoveAt(transactions, k))

\* Such a transfer is in the ledger next to another entry touching an end.
C27_Witness ==
    /\ Len(transactions) = MaxTxs
    /\ \E k \in 1..Len(transactions) : \E i, j \in 1..Len(accounts) :
          /\ PlainTransfer(k, i, j)
          /\ \E m \in 1..Len(transactions) :
                m # k /\ transactions[m].type = "INCOME"
                      /\ transactions[m].fromAccountId = accounts[j].id
          /\ processedAccounts[i].currentBalance # accounts[i].openingBalance

\* The replay of an account up to and including position n of its sorted list.
replayed(account, txs, n) ==
    forEachTx(account, startBalance(account), SubSeq(sortedTxs(account, txs), 1, n))

SelfTransfer(account, tx) ==
    /\ tx.type = "TRANSFER"
    /\ tx.fromAccountId = account.id
    /\ tx.toAccountId = account.id

\* C28: a TRANSFER whose two ends are the same account A is replayed for A
\* once, and its step lowers the running balance by its amount.
C28_SelfTransferIsOneDebit ==
    \A i \in 1..Len(accounts) :
        /\ Len(sortedTxs(accounts[i], transactions))
             = Cardinality({k \in 1..Len(transactions) :
                              \/ transactions[k].fromAccountId = accounts[i].id
                              \/ transactions[k].toAccountId = accounts[i].id})
        /\ \A n \in 1..Len(sortedTxs(accounts[i], transactions)) :
              SelfTransfer(accounts[i], sortedTxs(accounts[i], transactions)[n]) =>
                  replayed(accounts[i], transactions, n)
                    = replayed(accounts[i], transactions, n - 1)
                        - sortedTxs(accounts[i], transactions)[n].amount

\* A self-transfer of a stored account has been replayed.
C28_Witness ==
    \E i \in 1..Len(accounts), k \in 1..Len(transactions) :
        /\ SelfTransfer(accounts[i], transactions[k])
        /\ processedAccounts[i].currentBalance = accounts[i].openingBalance - 1

\* The entries touching the account carry pairwise distinct dates.
DistinctDates(account, txs) ==
    \A m, n \in 1..Len(relevantTxs(account, txs)) :
        m # n => relevantTxs(account, txs)[m].date # relevantTxs(account, txs)[n].date

permuted(txs, p) == [n \in 1..Len(txs) |-> txs[p[n]]]

\* C29: the balance of a credit card is the same for every order of the
\* input list, as long as the entries touching the card differ in date.
C29_CreditCardOrderFree ==
    \A i \in 1..Len(accounts) :
        (accounts[i].type = "CREDIT_CARD" /\ DistinctDates(accounts[i], transactions)) =>
            \A p \in Permutations(1..Len(transactions)) :
                balanceUnder(accounts[i], permuted(transactions, p))
                  = processedAccounts[i].currentBalance

\* A card is touched by an INCOME and by a later-listed, earlier-dated EXPENSE.
C29_Witness ==
    \E i \in 1..Len(accounts) :
        /\ accounts[i].type = "CREDIT_CARD"
        /\ Len(transactions) = 2
        /\ DistinctDates(accounts[i], transactions)
        /\ transactions[1].type = "INCOME" /\ transactions[1].fromAccountId = accounts[i].id
        /\ transactions[2].type = "EXPENSE" /\ transactions[2].fromAccountId = accounts[i].id
        /\ getTime(transactions[2].date) < getTime(transactions[1].date)

(***************************************************************************)
(* SyncSpec: the ledger handlers of the remote variant, step by step.  A   *)
(* handler sets isSyncing, awaits FireballDB and goes on when the store    *)
(* has answered; `pending` holds the handlers that are awaiting, and the   *)
(* store answers them in any order, with a row or with an error.           *)
(***************************************************************************)

\* What TransactionManager and SmartImporter hand over.
SyncTransaction ==
    { [type |-> t, date |-> [y |-> 2024, m |-> 5, d |-> 1], amount |-> 1,
       fromAccountId |-> "acc_1",
       toAccountId |-> IF t = "TRANSFER" THEN "acc_2" ELSE undefined]
      : t \in {"EXPENSE", "TRANSFER"} }

\* The batches of SmartImporter: one row or two.
ImportBatches ==
    {<<tx>> : tx \in SyncTransaction}
      \cup {<<tx1, tx2>> : tx1 \in SyncTransaction, tx2 \in SyncTransaction}

\* The inserts the awaiting handlers will still ask for.
RECURSIVE rowsAwaited(_)
rowsAwaited(handlers) ==
    IF handlers = <<>> THEN 0
    ELSE rowsAwaited(Tail(handlers))
           + (IF Head(handlers).op = "insert" THEN 1
              ELSE IF Head(handlers).op = "import" THEN Len(Head(handlers).rows)
              ELSE 0)

\* FireballDB.update on the table: the fields cleanPayload keeps are written.
remoteUpdated(rows, id, u) ==
    [k \in 1..Len(rows) |->
        IF rows[k].id = id
        THEN [f \in DOMAIN rows[k] |->
                IF f \in DOMAIN u
                   /\ ~(f \in {"fromAccountId", "toAccountId"}
                          /\ u[f] \in {null, undefined, ""})
                THEN u[f] ELSE rows[k][f]]
        ELSE rows[k]]

\* Variant: the rows written before the failure are added to the local list.
afterImport_partial(prev, results, error) == results \o prev

\* handleImportTransactions past its loop: setTransactions(prev =>
\* [...results, ...prev]) is inside the try, after the loop; an error of any
\* insert jumps over it to the catch.
afterImport(prev, results, error) == IF error THEN prev ELSE results \o prev

\* A handler starts: setIsSyncing(true), then the first await.
beginHandler(handler) ==
    /\ Len(pending) < MaxPending
    /\ isSyncing' = TRUE
    /\ pending' = Append(pending, handler)
    /\ UNCHANGED <<ledgerVars, budgetVars, deltaCall, formVars, categoryManager, remote>>

\* handleAddTransaction up to: await FireballDB.insert(COLLECTIONS.TRANSACTIONS, tx)
beginAddTransaction(tx) ==
    /\ remote.inserts + rowsAwaited(pending) < MaxTxs
    /\ beginHandler([op |-> "insert", data |-> tx])

\* handleUpdateTransaction up to: await FireballDB.update(..., id, u)
beginUpdateTransaction(id, u) ==
    /\ \E k \in 1..Len(transactions) : transactions[k].id = id
    /\ beginHandler([op |-> "update", id |-> id, data |-> u])

\* handleDeleteTransaction up to: await FireballDB.delete(..., id)
beginDeleteTransaction(id) ==
    /\ \E k \in 1..Len(transactions) : transactions[k].id = id
    /\ beginHandler([op |-> "delete", id |-> id])

\* handleImportTransactions up to the first await of its loop
beginImportTransactions(newTxs) ==
    /\ remote.inserts + rowsAwaited(pending) + Len(newTxs) <= MaxTxs
    /\ beginHandler([op |-> "import", rows |-> newTxs, results |-> <<>>])

\* A handler is through: the finally block, and the render of what it set.
endHandler(k, txs) ==
    /\ isSyncing' = FALSE
    /\ pending' = RemoveAt(pending, k)
    /\ Render(accounts, txs)
    /\ UNCHANGED <<budgetVars, deltaCall, formVars, categoryManager>>

\* The store has inserted the row: handleAddTransaction goes on.
endAddTransaction(k) ==
    /\ k \in 1..Len(pending)
    /\ pending[k].op = "insert"
    /\ LET row == inserted(pending[k].data, remote.inserts + 1)
       IN  /\ remote' = [rows |-> Append(remote.rows, row),
                         inserts |-> remote.inserts + 1]
           /\ endHandler(k, <<row>> \o transactions)

\* The store has updated the row: handleUpdateTransaction goes on.
endUpdateTransaction(k) ==
    /\ k \in 1..Len(pending)
    /\ pending[k].op = "update"
    /\ remote' = [remote EXCEPT
                    !.rows = remoteUpdated(remote.rows, pending[k].id, pending[k].data)]
    /\ endHandler(k, updatedTransactions(transactions, pending[k].id, pending[k].data))

\* The store has deleted the row: handleDeleteTransaction goes on.
endDeleteTransaction(k) ==
    /\ k \in 1..Len(pending)
    /\ pending[k].op = "delete"
    /\ remote' = [remote EXCEPT
                    !.rows = SelectSeq(remote.rows, LAMBDA t : t.id # pending[k].id)]
    /\ endHandler(k, SelectSeq(transactions, LAMBDA t : t.id # pending[k].id))

\* The store has inserted a row of the batch: results.push(inserted); the
\* loop goes to its next await, or past its end to setTransactions.
importInserted(k) ==
    /\ k \in 1..Len(pending)
    /\ pending[k].op = "import"
    /\ LET row == inserted(Head(pending[k].rows), remote.inserts + 1)
           results == Append(pending[k].results, row)
       IN  /\ remote' = [rows |-> Append(remote.rows, row),
                         inserts |-> remote.inserts + 1]
           /\ IF Len(pending[k].rows) > 1
              THEN /\ pending' = [pending EXCEPT
                                    ![k] = [op |-> "import",
                                            rows |-> Tail(pending[k].rows),
                                            results |-> results]]
                   /\ UNCHANGED <<ledgerVars, budgetVars, deltaCall, formVars,
                                  categoryManager, isSyncing>>
              ELSE endHandler(k, afterImport(transactions, results, FALSE))

\* The store answers an insert of the batch with an error: catch, finally.
importRejected(k) ==
    /\ k \in 1..Len(pending)
    /\ pending[k].op = "import"
    /\ endHandler(k, afterImport(transactions, pending[k].results, TRUE))
    /\ UNCHANGED remote

\* The store answers insert, update or delete with an error: the await
\* throws, the rest of the try block is skipped, finally runs.
writeRejected(k) ==
    /\ k \in 1..Len(pending)
    /\ pending[k].op \in {"insert", "update", "delete"}
    /\ endHandler(k, transactions)
    /\ UNCHANGED remote

\* fetchAllData has loaded two accounts and no transactions.
SyncInit ==
    /\ accounts = FormAccounts
    /\ transactions = <<>>
    /\ processedAccounts = recalculateBalances(accounts, transactions)
    /\ callArgs = [accounts |-> accounts, transactions |-> transactions]
    /\ NoBudgetTab
    /\ NoDelta
    /\ NoForm
    /\ NoCategoryTab
    /\ NoSync

StoredIds == {"tx_" \o ToString(n) : n \in 1..MaxTxs}

SyncNext ==
    \/ \E tx \in SyncTransaction : beginAddTransaction(tx)
    \/ \E id \in StoredIds, u \in SyncTransaction : beginUpdateTransaction(id, u)
    \/ \E id \in StoredIds : beginDeleteTransaction(id)
    \/ \E newTxs \in ImportBatches : beginImportTransactions(newTxs)
    \/ \E k \in 1..MaxPending : endAddTransaction(k)
    \/ \E k \in 1..MaxPending : endUpdateTransaction(k)
    \/ \E k \in 1..MaxPending : endDeleteTransaction(k)
    \/ \E k \in 1..MaxPending : importInserted(k)
    \/ \E k \in 1..MaxPending : importRejected(k)
    \/ \E k \in 1..MaxPending : writeRejected(k)

SyncSpec == SyncInit /\ [][SyncNext]_vars

\* C30: the local list changes only in a step in which the store has taken
\* a write; a rejected insert, update or delete and a rejected insert of a
\* batch leave it as it is, the rows of the batch written before staying in
\* the store; and isSyncing is false when a handler is through.
C30_LocalFollowsRemote ==
    [][/\ transactions' # transactions => remote' # remote
       /\ \A k \in 1..Len(pending) :
             (writeRejected(k) \/ importRejected(k)) =>
                 /\ transactions' = transactions
                 /\ remote' = remote
       /\ Len(pending') < Len(pending) => ~isSyncing']_vars

\* The second insert of a batch was rejected: its first row is in the store
\* and not in the local list, and no handler is at work.
C30_Witness ==
    /\ pending = <<>>
    /\ ~isSyncing
    /\ \E r \in Range(remote.rows) : \A t \in Range(transactions) : t.id # r.id

====
